---- MODULE Spec2Model ----
(***************************************************************************)
(* Entity extraction of the locomotive chatbot core:                       *)
(* chatbot-core/nlp/extractLocoQuery.ts.  A message is a string; offsets   *)
(* are the 0-based character offsets of the source (String.slice,          *)
(* RegExp.exec), so the character at offset k of s is SubSeq(s, k+1, k+1). *)
(* Every regular expression of the source is modelled by a matcher that    *)
(* gives, for a start offset, the match the backtracking engine returns    *)
(* there; exec and forEachMatch scan with the regex's lastIndex cursor.    *)
(***************************************************************************)
EXTENDS Integers, Sequences, FiniteSets, TLC

VARIABLES
  input,      \* the message being composed / last passed to extractLocoQuery
  fragments,  \* the number of fragments typed into the message
  result,     \* the LocoQuery returned by the last call (NoResult before it)
  lastIndex,  \* lastIndex cursor of each module-level global regex
  pc,         \* "compose": the caller builds a message; "done": a call returned
  earlier,    \* history: an earlier call of extractLocoQuery has returned
  resolver,   \* the resolver's assetData, and the candidates, context, options
              \* and outcome of its last resolution
  scan,       \* a forEachMatch in progress: its regex, what the regex matches
              \* at each offset of the input, the regex's lastIndex and the
              \* matches handed to cb so far
  validation  \* a validateIntentCatalog in progress: its place in the loops
              \* over the entries and their calls, and the Error thrown

vars == <<input, fragments, result, lastIndex, pc, earlier, resolver, scan, validation>>

(***************************************************************************)
(* Characters and strings                                                  *)
(***************************************************************************)
LowerAlphabet == "abcdefghijklmnopqrstuvwxyz"

UpperAlphabet == "ABCDEFGHIJKLMNOPQRSTUVWXYZ"

DecimalDigits == "0123456789"

\* the characters of a string
CharsOf(s) == {SubSeq(s, i, i) : i \in 1..Len(s)}

Digits == CharsOf(DecimalDigits)

LowerLetters == CharsOf(LowerAlphabet)

UpperLetters == CharsOf(UpperAlphabet)

Letters == LowerLetters \cup UpperLetters

\* \w of a JavaScript regex
WordChars == Letters \cup Digits \cup {"_"}

\* \s of a JavaScript regex (the ASCII part)
Whitespace == {" ", "\t", "\n"}

\* [a-f0-9] under the i flag
HexChars == Digits \cup CharsOf("abcdefABCDEF")

\* [A-Za-z0-9\-\/]
ModelChars == Letters \cup Digits \cup {"-", "/"}

\* [A-Z0-9\-\/]
UpperModelChars == UpperLetters \cup Digits \cup {"-", "/"}

\* [0-9\-\/]
ModelMarks == Digits \cup {"-", "/"}

\* the place of the character c in the string s, from 1
PlaceIn(s, c) == CHOOSE k \in 1..Len(s) : SubSeq(s, k, k) = c

LowerOf ==
  [c \in UpperLetters |->
     SubSeq(LowerAlphabet, PlaceIn(UpperAlphabet, c), PlaceIn(UpperAlphabet, c))]

UpperOf ==
  [c \in LowerLetters |->
     SubSeq(UpperAlphabet, PlaceIn(LowerAlphabet, c), PlaceIn(LowerAlphabet, c))]

Max(a, b) == IF a >= b THEN a ELSE b
Min(a, b) == IF a <= b THEN a ELSE b

\* the largest element of a non-empty set of integers
MaxOf(S) == CHOOSE m \in UNION {{j \in T : \A k \in T : k <= j} : T \in {S}} : TRUE

\* the smallest element of a non-empty set of integers
MinOf(S) == CHOOSE m \in UNION {{j \in T : \A k \in T : j <= k} : T \in {S}} : TRUE

\* s.charAt(k): "" outside the string
charAt(s, k) == IF k < 0 \/ k >= Len(s) THEN "" ELSE SubSeq(s, k + 1, k + 1)

\* s.slice(a, b) for 0 <= a, 0 <= b
slice(s, a, b) ==
  IF Min(a, Len(s)) >= Min(b, Len(s)) THEN ""
  ELSE SubSeq(s, Min(a, Len(s)) + 1, Min(b, Len(s)))

\* s.slice(a)
sliceFrom(s, a) == slice(s, a, Len(s))

\* s.toLowerCase(), character by character: a string of several characters
\* is the lower case of its first half followed by that of the rest
RECURSIVE toLowerCase(_)
toLowerCase(s) ==
  IF Len(s) = 0 THEN ""
  ELSE IF Len(s) = 1 THEN (IF s \in UpperLetters THEN LowerOf[s] ELSE s)
  ELSE toLowerCase(SubSeq(s, 1, Len(s) \div 2))
         \o toLowerCase(SubSeq(s, Len(s) \div 2 + 1, Len(s)))

\* s.toUpperCase(), in the same way
RECURSIVE toUpperCase(_)
toUpperCase(s) ==
  IF Len(s) = 0 THEN ""
  ELSE IF Len(s) = 1 THEN (IF s \in LowerLetters THEN UpperOf[s] ELSE s)
  ELSE toUpperCase(SubSeq(s, 1, Len(s) \div 2))
         \o toUpperCase(SubSeq(s, Len(s) \div 2 + 1, Len(s)))

\* s.indexOf(t) >= 0 for strings
contains(s, t) == \E k \in 0..Len(s) : k + Len(t) <= Len(s) /\ slice(s, k, k + Len(t)) = t

\* arr.indexOf(v) >= 0 for arrays
inArray(arr, v) == \E i \in 1..Len(arr) : arr[i] = v

\* Number(numText) for a string of decimal digits
DigitValue(c) == PlaceIn(DecimalDigits, c) - 1

RECURSIVE NumberOf(_, _)
NumberOf(numText, acc) ==
  IF numText = "" THEN acc
  ELSE NumberOf(Tail(numText), 10 * acc + DigitValue(Head(numText)))

Number(numText) == NumberOf(numText, 0)

(***************************************************************************)
(* Regex primitives                                                        *)
(***************************************************************************)
\* \b at offset p of s
WordBoundary(s, p) ==
  (charAt(s, p - 1) \in WordChars) # (charAt(s, p) \in WordChars)

\* the length of the longest run of characters of class cls from offset p:
\* the distance to the first offset that holds no character of cls
RunLen(s, p, cls) ==
  MinOf({k \in 0..Max(0, Len(s) - p) : charAt(s, p + k) \notin cls})

\* a literal at offset p, compared case-insensitively (lit is lower case)
LitAt(s, p, lit) == toLowerCase(slice(s, p, p + Len(lit))) = lit

\* the run of word characters from offset p, in lower case
WordFrom(s, p) == toLowerCase(slice(s, p, p + RunLen(s, p, WordChars)))

\* the run of letters from offset p, in lower case
LettersFrom(s, p) == toLowerCase(slice(s, p, p + RunLen(s, p, Letters)))

\* \b(w1|w2|...)\b at offset p, under the i flag, for alternatives made of word
\* characters: the boundaries make the alternative the whole word that starts at p
WordAt(s, p, words) ==
  /\ WordBoundary(s, p)
  /\ charAt(s, p) \in WordChars
  /\ WordFrom(s, p) \in words

\* a match: its offset, its end, its capture groups 1 and 2
NoMatch == [index |-> -1, end |-> -1, g1 |-> "", g2 |-> ""]

Match(p, e, a, b) == [index |-> p, end |-> e, g1 |-> a, g2 |-> b]

matchText(s, m) == slice(s, m.index, m.end)

\* the largest j in lo..hi with a word boundary at offset p + j, or -1:
\* a greedy bounded repetition followed by \b, backtracking from the longest
GreedyToBoundary(s, p, lo, hi) ==
  MaxOf({j \in lo..hi : WordBoundary(s, p + j)} \cup {-1})

\* the offsets \s* can reach from any offset of the set from
AfterSpaces(s, from) ==
  UNION {{i + k : k \in 0..RunLen(s, i, Whitespace)} : i \in from}

\* the offsets an optional alternative of literals can reach
AfterOptionalLits(s, from, lits) ==
  from \cup UNION {{i + Len(l) : l \in {x \in lits : LitAt(s, i, x)}} : i \in from}

\* the offsets an optional character of the class cls can reach
AfterOptionalChar(s, from, cls) ==
  from \cup {i + 1 : i \in {j \in from : charAt(s, j) \in cls}}

(***************************************************************************)
(* The regular expressions (src lines 36-57)                               *)
(***************************************************************************)
AssetIdLen == 24
MinDigits == 3
MaxDigits == 5
MinModelTail == 2
MaxModelTail == 15

\* /\b[a-f0-9]{24}\b/gi
ASSET_ID_REGEX_GLOBAL(s, p) ==
  IF /\ WordBoundary(s, p)
     /\ RunLen(s, p, HexChars) >= AssetIdLen
     /\ WordBoundary(s, p + AssetIdLen)
  THEN Match(p, p + AssetIdLen, "", "")
  ELSE NoMatch

\* (loco|locomotive|unit|engine|locos|units|engines)
KeywordsPlural ==
  {"loco", "locomotive", "unit", "engine", "locos", "units", "engines"}

\* (loco|locomotive|unit|engine)
Keywords == {"loco", "locomotive", "unit", "engine"}

\* (?:no\.?|number)
NumberWords == {"no", "no.", "number"}

\* [:#\-]
Separators == {":", "#", "-"}

\* the length of the digit run that (\d{3,5})\b takes at offset d, 0 when it
\* does not match
DigitsLen(s, d) ==
  IF /\ RunLen(s, d, Digits) >= MinDigits
     /\ RunLen(s, d, Digits) <= MaxDigits
     /\ WordBoundary(s, d + RunLen(s, d, Digits))
  THEN RunLen(s, d, Digits) ELSE 0

\* (\d{3,5})\b at offset d: the digit run there, or "" when it does not match
DigitsToBoundary(s, d) == slice(s, d, d + DigitsLen(s, d))

\* (?:\s*(?:no\.?|number)?)\s*[:#\-]?\s*(\d{3,5})\b after a keyword that ends
\* at offset e: the offsets where the digits can start
NumberAfterKeyword(s, e) ==
  {d \in AfterSpaces(s,
           AfterOptionalChar(s,
             AfterSpaces(s,
               AfterOptionalLits(s, AfterSpaces(s, {e}), NumberWords)),
             Separators)) :
     DigitsLen(s, d) > 0}

\* the match of a keyword of k characters at offset p with its number at offset d
KeywordNumberMatch(s, p, k, d) ==
  Match(p, d + DigitsLen(s, d), slice(s, p, p + k), DigitsToBoundary(s, d))

\* the keyword of k characters at offset p: the match with the number after it
KeywordNumberAfter(s, p, k) ==
  IF NumberAfterKeyword(s, p + k) # {}
  THEN KeywordNumberMatch(s, p, k, MinOf(NumberAfterKeyword(s, p + k)))
  ELSE NoMatch

\* /\b(loco|locomotive|unit|engine|locos|units|engines)\b(?:\s*(?:no\.?|number)?)\s*[:#\-]?\s*(\d{3,5})\b/gi
LOCO_KEYWORD_NUMBER_GLOBAL(s, p) ==
  IF WordAt(s, p, KeywordsPlural)
  THEN KeywordNumberAfter(s, p, Len(WordFrom(s, p)))
  ELSE NoMatch

\* \s*#?\s*(\d{3,5})\b after a keyword that ends at offset e
NumberAfterKeywordCompiled(s, e) ==
  {d \in AfterSpaces(s, AfterOptionalChar(s, AfterSpaces(s, {e}), {"#"})) :
     DigitsLen(s, d) > 0}

\* extractLocoQuery.js: /\b(loco|locomotive|unit|engine)\b\s*#?\s*(\d{3,5})\b/gi
LOCO_KEYWORD_NUMBER_COMPILED(s, p) ==
  IF WordAt(s, p, Keywords) /\ NumberAfterKeywordCompiled(s, p + Len(WordFrom(s, p))) # {}
  THEN KeywordNumberMatch(s, p, Len(WordFrom(s, p)),
         MinOf(NumberAfterKeywordCompiled(s, p + Len(WordFrom(s, p)))))
  ELSE NoMatch

\* a concatenated-form regex that never matches (an extractor without Phase 1b)
LOCO_KEYWORD_NUMBER_CONCAT_NEVER(s, p) == NoMatch

\* /\b(loco|locomotive|unit|engine)(\d{3,5})\b/gi
LOCO_KEYWORD_NUMBER_CONCAT_GLOBAL(s, p) ==
  IF /\ WordBoundary(s, p)
     /\ LettersFrom(s, p) \in Keywords
     /\ DigitsLen(s, p + Len(LettersFrom(s, p))) > 0
  THEN KeywordNumberMatch(s, p, Len(LettersFrom(s, p)), p + Len(LettersFrom(s, p)))
  ELSE NoMatch

\* /\b\d{3,5}\b/g
LOCO_NUMBER_GLOBAL(s, p) ==
  IF WordBoundary(s, p) /\ DigitsLen(s, p) > 0
  THEN Match(p, p + DigitsLen(s, p), "", "")
  ELSE NoMatch

\* /\b\d{3,5}\b/g
LOCO_NUMBER_START_GLOBAL(s, p) == LOCO_NUMBER_GLOBAL(s, p)

\* ([A-Za-z][A-Za-z0-9\-\/]{2,15})\b after n digits at offset p: the match
\* whose model part is the letter and j more characters, j = -1 for no match
NoSpaceMatch(s, p, n, j) ==
  IF j # -1
  THEN Match(p, p + n + 1 + j, slice(s, p, p + n), slice(s, p + n, p + n + 1 + j))
  ELSE NoMatch

\* /\b(\d{3,5})([A-Za-z][A-Za-z0-9\-\/]{2,15})\b/g after the word boundary,
\* with a run of n digits at offset p
NoSpaceAfterDigits(s, p, n) ==
  IF n >= MinDigits /\ n <= MaxDigits /\ charAt(s, p + n) \in Letters
  THEN NoSpaceMatch(s, p, n,
         GreedyToBoundary(s, p + n + 1, MinModelTail,
                          Min(MaxModelTail, RunLen(s, p + n + 1, ModelChars))))
  ELSE NoMatch

\* /\b(\d{3,5})([A-Za-z][A-Za-z0-9\-\/]{2,15})\b/g
LOCO_NAME_NOSPACE_GLOBAL(s, p) ==
  IF WordBoundary(s, p) THEN NoSpaceAfterDigits(s, p, RunLen(s, p, Digits))
  ELSE NoMatch

\* [A-Z][A-Z0-9\-\/]{2,15}\b from offset p: the match of the letter and j more
\* characters, j = -1 for no match
ModelTokenMatch(p, j) == IF j # -1 THEN Match(p, p + 1 + j, "", "") ELSE NoMatch

\* /\b[A-Z][A-Z0-9\-\/]{2,15}\b/g
MODEL_TOKEN_GLOBAL(s, p) ==
  IF WordBoundary(s, p) /\ charAt(s, p) \in UpperLetters
  THEN ModelTokenMatch(p,
         GreedyToBoundary(s, p + 1, MinModelTail,
                          Min(MaxModelTail, RunLen(s, p + 1, UpperModelChars))))
  ELSE NoMatch

\* /\d*/g: a pattern that matches the empty string where no digit stands;
\* none of the module's regexes does, forEachMatch is written for any regex
DIGITS_OPTIONAL_GLOBAL(s, p) == Match(p, p + RunLen(s, p, Digits), "", "")

RegexNames ==
  {"ASSET_ID_REGEX_GLOBAL", "LOCO_KEYWORD_NUMBER_GLOBAL",
   "LOCO_KEYWORD_NUMBER_CONCAT_GLOBAL", "LOCO_NUMBER_GLOBAL",
   "LOCO_NUMBER_START_GLOBAL", "LOCO_NAME_NOSPACE_GLOBAL", "MODEL_TOKEN_GLOBAL"}

\* the match of the regex named rx that starts at offset p of s, or NoMatch
MatchAt(rx, s, p) ==
  CASE rx = "ASSET_ID_REGEX_GLOBAL" -> ASSET_ID_REGEX_GLOBAL(s, p)
    [] rx = "LOCO_KEYWORD_NUMBER_GLOBAL" -> LOCO_KEYWORD_NUMBER_GLOBAL(s, p)
    [] rx = "LOCO_KEYWORD_NUMBER_CONCAT_GLOBAL" -> LOCO_KEYWORD_NUMBER_CONCAT_GLOBAL(s, p)
    [] rx = "LOCO_NUMBER_GLOBAL" -> LOCO_NUMBER_GLOBAL(s, p)
    [] rx = "LOCO_NUMBER_START_GLOBAL" -> LOCO_NUMBER_START_GLOBAL(s, p)
    [] rx = "LOCO_NAME_NOSPACE_GLOBAL" -> LOCO_NAME_NOSPACE_GLOBAL(s, p)
    [] rx = "MODEL_TOKEN_GLOBAL" -> MODEL_TOKEN_GLOBAL(s, p)
    [] rx = "DIGITS_OPTIONAL_GLOBAL" -> DIGITS_OPTIONAL_GLOBAL(s, p)
    [] rx = "LOCO_KEYWORD_NUMBER_COMPILED" -> LOCO_KEYWORD_NUMBER_COMPILED(s, p)

(***************************************************************************)
(* RegExp.prototype.exec on a global regex and forEachMatch                *)
(***************************************************************************)
\* what the regex named rx matches at each offset from li on of s
MatchesFrom(rx, s, li) == [p \in li..Len(s) |-> MatchAt(rx, s, p)]

\* the match at the least offset of ps, null (NoMatch) when ps is empty
MatchAtFirst(at, ps) == IF ps = {} THEN NoMatch ELSE at[MinOf(ps)]

\* the leftmost match at or after li, or null, at the matches a regex has at
\* the offsets of an input of length n
execAt(at, li, n) == MatchAtFirst(at, {p \in li..n : at[p] # NoMatch})

\* regex.exec(input) with regex.lastIndex = li: the leftmost match at or after
\* li, or null (NoMatch); exec leaves the cursor at the end of the match, and
\* at 0 when it returns null
exec(rx, s, li) == execAt(MatchesFrom(rx, s, li), li, Len(s))

\* regex.lastIndex after exec has returned m
lastIndexAfter(m) == IF m = NoMatch THEN 0 ELSE m.end

\* a loop body without the step past an empty match
lastIndexAfterBodyNoStep(m) == lastIndexAfter(m)

\* regex.lastIndex after the loop body has run on the match m:
\* if (m[0] === "") regex.lastIndex++
lastIndexAfterBody(m) ==
  IF m.end = m.index THEN lastIndexAfter(m) + 1 ELSE lastIndexAfter(m)

\* the while loop of forEachMatch, m the result of the exec just made and acc
\* the matches handed to cb: the matches in order and the cursor left behind
RECURSIVE forEachMatchLoop(_, _, _, _)
forEachMatchLoop(s, rx, m, acc) ==
  IF m = NoMatch THEN [ms |-> acc, lastIndex |-> lastIndexAfter(m)]
  ELSE forEachMatchLoop(s, rx, exec(rx, s, lastIndexAfterBody(m)), Append(acc, m))

\* a scan that calls exec once from wherever the cursor was left (no reset, no loop)
forEachMatchSticky(s, rx, li) ==
  [ms |-> IF exec(rx, s, li) = NoMatch THEN <<>> ELSE <<exec(rx, s, li)>>,
   lastIndex |-> lastIndexAfter(exec(rx, s, li))]

\* forEachMatch(input, regex, cb) entered with regex.lastIndex = li: the
\* cursor is reset to 0, then the loop runs
forEachMatch(s, rx, li) == forEachMatchLoop(s, rx, exec(rx, s, 0), <<>>)

(***************************************************************************)
(* Helpers (src lines 59-149)                                              *)
(***************************************************************************)
NAME_STOPWORDS ==
  {"DAY", "DAYS", "TODAY", "TOMORROW", "YESTERDAY",
   "WEEK", "WEEKS", "MONTH", "MONTHS", "YEAR", "YEARS",
   "INSPECTION", "INSPECTIONS", "DUE", "NEXT", "DONE",
   "COMPLETED", "PENDING", "OVERDUE", "SCHEDULED",
   "LOCO", "LOCOMOTIVE", "UNIT", "ENGINE", "UNITS", "ENGINES",
   "PLEASE", "PLS", "PLZ", "THANKS", "THANK", "THANKYOU",
   "WITH", "AND", "VS", "OR", "COMPARED", "TO",
   "FOR", "FROM", "BY", "AT", "ON", "OF",
   "IN", "IS", "ARE", "WAS", "WERE", "BE", "BEEN",
   "THE", "A", "AN", "THIS", "THAT", "THESE", "THOSE",
   "HOW", "WHAT", "WHEN", "WHERE", "WHY", "WHO", "WHICH",
   "CAN", "COULD", "WILL", "WOULD", "SHOULD", "MAY", "MIGHT",
   "DO", "DOES", "DID", "HAVE", "HAS", "HAD",
   "GET", "FIND", "SHOW", "LIST", "GIVE", "TELL"}

\* uniq that keeps every element
uniqKeepsAll(arr) == arr

\* uniq(arr): the first occurrence of every value, in order
RECURSIVE uniqFrom(_, _, _)
uniqFrom(arr, i, out) ==
  IF i > Len(arr) THEN out
  ELSE uniqFrom(arr, i + 1, IF inArray(out, arr[i]) THEN out ELSE Append(out, arr[i]))

uniq(arr) == uniqFrom(arr, 1, <<>>)

\* /\b(w1|w2|...)\b/.test(s) for a lower-case s
HasWord(s, words) == \E p \in 0..Len(s) : WordAt(s, p, words)

KeywordWindow == 20
NameKeywordWindow == 25

nearKeywords(in, start, end, window) ==
  HasWord(toLowerCase(slice(in, Max(0, start - window), Min(Len(in), end + window))),
          Keywords)

DayishTail == 10

\* days?\b from any offset of the set from
DaysWordAt(s, from) ==
  \E j \in from :
    /\ slice(s, j, j + 3) = "day"
    /\ \/ WordBoundary(s, j + 3)
       \/ charAt(s, j + 3) = "s" /\ WordBoundary(s, j + 4)

\* the offsets after a '-' at an offset of the set from
AfterDash(s, from) == {i + 1 : i \in {j \in from : charAt(s, j) = "-"}}

\* /^(\s*-\s*days?\b|\s+days?\b|-\s*days?\b|d\b|d\s)/.test(tail)
Dayish(tail) ==
  \/ DaysWordAt(tail, AfterSpaces(tail, AfterDash(tail, AfterSpaces(tail, {0}))))
  \/ DaysWordAt(tail, AfterSpaces(tail, {0}) \ {0})
  \/ DaysWordAt(tail, AfterSpaces(tail, AfterDash(tail, {0})))
  \/ charAt(tail, 0) = "d" /\ WordBoundary(tail, 1)
  \/ charAt(tail, 0) = "d" /\ charAt(tail, 1) \in Whitespace

\* isFollowedByDayish without the \s+days?\b alternative ("368 days")
isFollowedByDayishDashOnly(in, end) ==
  LET tail == toLowerCase(slice(in, end, Min(Len(in), end + DayishTail)))
  IN  \/ DaysWordAt(tail, AfterSpaces(tail, AfterDash(tail, AfterSpaces(tail, {0}))))
      \/ DaysWordAt(tail, AfterSpaces(tail, AfterDash(tail, {0})))
      \/ charAt(tail, 0) = "d" /\ WordBoundary(tail, 1)
      \/ charAt(tail, 0) = "d" /\ charAt(tail, 1) \in Whitespace

isFollowedByDayish(in, end) ==
  Dayish(toLowerCase(slice(in, end, Min(Len(in), end + DayishTail))))

YearFrom == 1900
YearTo == 2099

looksLikeYear(n) == n >= YearFrom /\ n <= YearTo

CountLeftWindow == 20
CountRightWindow == 25

\* /\b(w1|w2|...)\s*$/.test(s)
EndsWithWord(s, words) ==
  \E p \in 0..Len(s) :
    /\ WordBoundary(s, p)
    /\ \E w \in words :
         /\ LitAt(s, p, w)
         /\ p + Len(w) + RunLen(s, p + Len(w), Whitespace) = Len(s)

\* \s+of\s*$ at offset a
OfToEnd(s, a) ==
  \E n \in 1..RunLen(s, a, Whitespace) :
    /\ slice(s, a + n, a + n + 2) = "of"
    /\ a + n + 2 + RunLen(s, a + n + 2, Whitespace) = Len(s)

\* /\b(number\s+of|count\s+of)\s*$/.test(s)
EndsWithCountOf(s) ==
  \E p \in 0..Len(s) :
    /\ WordBoundary(s, p)
    /\ \E w \in {"number", "count"} : LitAt(s, p, w) /\ OfToEnd(s, p + Len(w))

CountedNouns ==
  {"inspection", "inspections", "loco", "locos", "locomotive", "locomotives",
   "unit", "units", "engine", "engines", "record", "records", "item", "items",
   "result", "results"}

\* /^\s*(inspections?|locos?|...|results?)\b/.test(s)
StartsWithCountedNoun(s) ==
  \E p \in AfterSpaces(s, {0}) :
    \E w \in CountedNouns : LitAt(s, p, w) /\ WordBoundary(s, p + Len(w))

\* the three tests of looksLikeCountNumber on the lower-cased left and right
CountContext(left, right) ==
  \/ EndsWithWord(left, {"top", "first", "last", "limit"})
  \/ /\ EndsWithWord(left, {"show", "list", "display", "get", "give", "find"})
     /\ StartsWithCountedNoun(right)
  \/ EndsWithCountOf(left)

\* a test that knows the limit words only
looksLikeCountNumberLimitOnly(in, start, end) ==
  EndsWithWord(toLowerCase(slice(in, Max(0, start - CountLeftWindow), start)),
               {"top", "first", "last", "limit"})

looksLikeCountNumber(in, start, end) ==
  CountContext(toLowerCase(slice(in, Max(0, start - CountLeftWindow), start)),
               toLowerCase(slice(in, end, Min(Len(in), end + CountRightWindow))))

isStopword(word) == word \in NAME_STOPWORDS

DomainWords ==
  {"due", "overdue", "inspection", "inspections", "expiry", "expires",
   "expiring", "next", "credit", "status", "upcoming", "schedule",
   "scheduled", "pending", "completed", "history"}

\* of\s*use\b at offset b
OfUseAt(s, b) ==
  /\ LitAt(s, b, "of")
  /\ LitAt(s, b + 2 + RunLen(s, b + 2, Whitespace), "use")
  /\ WordBoundary(s, b + 2 + RunLen(s, b + 2, Whitespace) + 3)

\* out\s*of\s*use\b at offset p
OutOfUseAt(s, p) ==
  LitAt(s, p, "out") /\ OfUseAt(s, p + 3 + RunLen(s, p + 3, Whitespace))

hasDomainContext(in) ==
  \/ HasWord(in, DomainWords)
  \/ \E p \in 0..Len(in) : WordBoundary(in, p) /\ OutOfUseAt(in, p)

(***************************************************************************)
(* extractAssetIds (src lines 167-181)                                     *)
(***************************************************************************)
RawMatch(kind, text, start, end) ==
  [kind |-> kind, text |-> text, start |-> start, end |-> end]

\* a callback that keeps the casing of the input
AssetCallbackKeepCase(in, m, acc) ==
  [assetIds |-> Append(acc.assetIds, matchText(in, m)),
   matches  |-> Append(acc.matches,
                       RawMatch("assetId", matchText(in, m), m.index,
                                m.index + Len(matchText(in, m))))]

\* the callback of extractAssetIds on the match m
AssetCallback(in, m, acc) ==
  [assetIds |-> Append(acc.assetIds, toLowerCase(matchText(in, m))),
   matches  |-> Append(acc.matches,
                       RawMatch("assetId", matchText(in, m), m.index,
                                m.index + Len(matchText(in, m))))]

RECURSIVE AssetPhase(_, _, _, _)
AssetPhase(in, ms, i, acc) ==
  IF i > Len(ms) THEN acc
  ELSE AssetPhase(in, ms, i + 1, AssetCallback(in, ms[i], acc))

\* return { assetIds: uniq(assetIds), rawMatches: matches }
AssetIdsReturned(acc) == [assetIds |-> uniq(acc.assetIds), rawMatches |-> acc.matches]

extractAssetIds(in, li) ==
  AssetIdsReturned(
    AssetPhase(in, forEachMatch(in, "ASSET_ID_REGEX_GLOBAL", li).ms, 1,
               [assetIds |-> <<>>, matches |-> <<>>]))

(***************************************************************************)
(* extractLocoNos (src lines 191-290)                                      *)
(***************************************************************************)
\* s.lastIndexOf(t), -1 when t does not occur
lastIndexOf(s, t) ==
  MaxOf({k \in 0..(Len(s) - Len(t)) : slice(s, k, k + Len(t)) = t} \cup {-1})

\* the push of the Phase 1 callbacks: numText found at start
KeywordPush(acc, numText, start) ==
  IF ~inArray(acc.locoNos, numText)
  THEN [locoNos |-> Append(acc.locoNos, numText),
        matches |-> Append(acc.matches,
                           RawMatch("locoNo", numText, start, start + Len(numText))),
        trustedFromKeyword |-> acc.trustedFromKeyword \cup {numText}]
  ELSE acc

\* a callback that looks the number up in the whole input, not in the match
KeywordCallbackInputOffset(in, m, acc) ==
  KeywordPush(acc, m.g2,
    m.index + Max(0, lastIndexOf(toLowerCase(in), toLowerCase(m.g2))))

\* the callback of Phase 1a and of Phase 1b on the match m
KeywordCallback(in, m, acc) ==
  KeywordPush(acc, m.g2,
    m.index + Max(0, lastIndexOf(toLowerCase(matchText(in, m)), toLowerCase(m.g2))))

RECURSIVE KeywordPhase(_, _, _, _)
KeywordPhase(in, ms, i, acc) ==
  IF i > Len(ms) THEN acc
  ELSE KeywordPhase(in, ms, i + 1, KeywordCallback(in, ms[i], acc))

KeywordScore == 2
HashScore == 1
DomainScore == 1
MinScore == 1
HashLookBehind == 2

\* a score without the domain-context booster
candidateScoreNoDomain(in, start, end, hasDomain) ==
  (IF nearKeywords(in, start, end, KeywordWindow) THEN KeywordScore ELSE 0)
  + (IF contains(slice(in, Max(0, start - HashLookBehind), start), "#")
     THEN HashScore ELSE 0)

\* the score of the generic candidate at start..end
candidateScore(in, start, end, hasDomain) ==
  (IF nearKeywords(in, start, end, KeywordWindow) THEN KeywordScore ELSE 0)
  + (IF contains(slice(in, Max(0, start - HashLookBehind), start), "#")
     THEN HashScore ELSE 0)
  + (IF hasDomain THEN DomainScore ELSE 0)

\* early returns that drop a year only when no loco keyword is near
candidateRejectedYearUnlessNear(in, locoNos, numText, start, end) ==
  \/ inArray(locoNos, numText)
  \/ isFollowedByDayish(in, end)
  \/ looksLikeCountNumber(in, start, end)
  \/ looksLikeYear(Number(numText)) /\ ~nearKeywords(in, start, end, KeywordWindow)

\* the early returns of the Phase 2 callback: TRUE when the match is dropped
candidateRejected(in, locoNos, numText, start, end) ==
  \/ inArray(locoNos, numText)
  \/ isFollowedByDayish(in, end)
  \/ looksLikeCountNumber(in, start, end)
  \/ looksLikeYear(Number(numText))

\* the Phase 2 callback on numText found at start..end
CandidatePush(in, locoNos, hasDomain, numText, start, end, candidates) ==
  IF candidateRejected(in, locoNos, numText, start, end) THEN candidates
  ELSE Append(candidates,
              [numText |-> numText, start |-> start, end |-> end,
               score |-> candidateScore(in, start, end, hasDomain)])

\* the callback of Phase 2 on the match m: candidates collected so far
CandidateCallback(in, locoNos, hasDomain, m, candidates) ==
  CandidatePush(in, locoNos, hasDomain, matchText(in, m), m.index,
                m.index + Len(matchText(in, m)), candidates)

RECURSIVE CandidatePhase(_, _, _, _, _, _)
CandidatePhase(in, locoNos, hasDomain, ms, i, candidates) ==
  IF i > Len(ms) THEN candidates
  ELSE CandidatePhase(in, locoNos, hasDomain, ms, i + 1,
                      CandidateCallback(in, locoNos, hasDomain, ms[i], candidates))

\* an acceptance that takes a single remaining candidate whatever its score
acceptedWhenSingle(candidates, c) ==
  Len(candidates) = 1 \/ c.score >= MinScore

\* whether src lines 274-287 push the candidate c: the single-candidate branch
\* pushes candidates[0] when its score is enough, else the loop tests each score
accepted(candidates, c) ==
  IF Len(candidates) = 1 /\ candidates[1].score >= MinScore
  THEN c = candidates[1]
  ELSE c.score >= MinScore

\* a push that lists the number and records no match
AcceptPushNoMatch(acc, c) == [acc EXCEPT !.locoNos = Append(@, c.numText)]

\* the push of src lines 276-277 and 283-284
AcceptPush(acc, c) ==
  [acc EXCEPT !.locoNos = Append(@, c.numText),
              !.matches = Append(@, RawMatch("locoNo", c.numText, c.start, c.end))]

\* the candidates pushed by src lines 274-287, in order
RECURSIVE AcceptPhase(_, _, _)
AcceptPhase(candidates, i, acc) ==
  IF i > Len(candidates) THEN acc
  ELSE AcceptPhase(candidates, i + 1,
         IF accepted(candidates, candidates[i]) THEN AcceptPush(acc, candidates[i])
         ELSE acc)

\* Phase 2 and the acceptance, after Phase 1 has left acc; ms the matches of
\* LOCO_NUMBER_GLOBAL
ScoredPhase(in, ms, acc) ==
  AcceptPhase(CandidatePhase(in, acc.locoNos, hasDomainContext(in), ms, 1, <<>>),
              1, acc)

\* return { locoNos: uniq(locoNos), rawMatches: matches }
LocoNosReturned(acc) == [locoNos |-> uniq(acc.locoNos), rawMatches |-> acc.matches]

extractLocoNos(in, liA, liB, liC) ==
  LocoNosReturned(
    ScoredPhase(in, forEachMatch(in, "LOCO_NUMBER_GLOBAL", liC).ms,
      KeywordPhase(in, forEachMatch(in, "LOCO_KEYWORD_NUMBER_CONCAT_GLOBAL", liB).ms, 1,
        KeywordPhase(in, forEachMatch(in, "LOCO_KEYWORD_NUMBER_GLOBAL", liA).ms, 1,
          [locoNos |-> <<>>, matches |-> <<>>, trustedFromKeyword |-> {}]))))

(***************************************************************************)
(* extractNames (src lines 297-396)                                        *)
(***************************************************************************)
\* /[0-9\-\/]/.test(t) || (t.length >= 2 && t === t.toUpperCase())
hasModelMark(t) == \E k \in 0..(Len(t) - 1) : charAt(t, k) \in ModelMarks

isModelish(t) == hasModelMark(t) \/ (Len(t) >= 2 /\ t = toUpperCase(t))

\* names.push(name) and matches.push of the text at start, unless names has the name
NamePush(acc, name, text, start, end) ==
  IF inArray(acc.names, name) THEN acc
  ELSE [names   |-> Append(acc.names, name),
        matches |-> Append(acc.matches, RawMatch("name", text, start, end))]

\* a Phase 0 callback that records the compound without splitting it
NoSpaceCallbackUnsplit(in, m, acc) ==
  IF isStopword(toUpperCase(m.g2)) THEN acc
  ELSE IF ~hasModelMark(m.g2) /\ ~(Len(m.g2) >= 2 /\ m.g2 = toUpperCase(m.g2)) THEN acc
  ELSE NamePush(acc, matchText(in, m), matchText(in, m), m.index,
                m.index + Len(matchText(in, m)))

\* the callback of Phase 0 on the match m
NoSpaceCallback(in, m, acc) ==
  IF isStopword(toUpperCase(m.g2)) THEN acc
  ELSE IF ~hasModelMark(m.g2) /\ ~(Len(m.g2) >= 2 /\ m.g2 = toUpperCase(m.g2)) THEN acc
  ELSE NamePush(acc, m.g1 \o " " \o m.g2, matchText(in, m), m.index,
                m.index + Len(matchText(in, m)))

RECURSIVE NoSpacePhase(_, _, _, _)
NoSpacePhase(in, ms, i, acc) ==
  IF i > Len(ms) THEN acc
  ELSE NoSpacePhase(in, ms, i + 1, NoSpaceCallback(in, ms[i], acc))

MaxExtraTokens == 2

\* the offset after the token that starts at offset e: its first character and
\* the run of [A-Za-z0-9\-\/] after it
AfterToken(s, e) == e + 1 + RunLen(s, e + 1, ModelChars)

\* (?:\s+[A-Za-z0-9][A-Za-z0-9\-\/]*){0,n} from offset e: the offset reached
RECURSIVE MoreTokens(_, _, _)
MoreTokens(s, e, n) ==
  IF /\ n > 0
     /\ RunLen(s, e, Whitespace) >= 1
     /\ charAt(s, e + RunLen(s, e, Whitespace)) \in (Letters \cup Digits)
  THEN MoreTokens(s, AfterToken(s, e + RunLen(s, e, Whitespace)), n - 1)
  ELSE e

\* afterNum.match(/^(\s+[A-Za-z][A-Za-z0-9\-\/]*(?:\s+[A-Za-z0-9][A-Za-z0-9\-\/]*){0,2})/):
\* group 1, or "" when there is no match
afterMatch(afterNum) ==
  IF /\ RunLen(afterNum, 0, Whitespace) >= 1
     /\ charAt(afterNum, RunLen(afterNum, 0, Whitespace)) \in Letters
  THEN slice(afterNum, 0,
             MoreTokens(afterNum, AfterToken(afterNum, RunLen(afterNum, 0, Whitespace)),
                        MaxExtraTokens))
  ELSE ""

\* s.trim()
RECURSIVE trimEnd(_)
trimEnd(s) ==
  IF s # "" /\ charAt(s, Len(s) - 1) \in Whitespace
  THEN trimEnd(slice(s, 0, Len(s) - 1)) ELSE s

trim(s) == trimEnd(sliceFrom(s, RunLen(s, 0, Whitespace)))

\* the length of the longest run of characters outside cls from offset p
RunLenNot(s, p, cls) ==
  MinOf({k \in 0..Max(0, Len(s) - p) : p + k >= Len(s) \/ charAt(s, p + k) \in cls})

\* the first token of s, t characters long, and the tokens after the whitespace
\* that follows it
RECURSIVE splitAt(_, _)

\* s.split(/\s+/) for a trimmed, non-empty s
splitWs(s) == splitAt(s, RunLenNot(s, 0, Whitespace))

splitAt(s, t) ==
  IF t + RunLen(s, t, Whitespace) >= Len(s) THEN <<slice(s, 0, t)>>
  ELSE <<slice(s, 0, t)>> \o splitWs(sliceFrom(s, t + RunLen(s, t, Whitespace)))

\* tokens.join(" ")
RECURSIVE join(_)
join(tokens) ==
  IF Len(tokens) = 0 THEN ""
  ELSE IF Len(tokens) = 1 THEN tokens[1]
  ELSE tokens[1] \o " " \o join(Tail(tokens))

\* the indexes i >= 1 of the tokens that are stopwords (1-based: 2..)
StopwordsAt(tokens) == {i \in 2..Len(tokens) : isStopword(toUpperCase(tokens[i]))}

\* a phrase that is never cut
truncateNever(tokens) == tokens

\* tokens.slice(0, separatorIndex) for the first stopword among tokens[1..]
truncateAtStopword(tokens) ==
  IF StopwordsAt(tokens) = {} THEN tokens
  ELSE SubSeq(tokens, 1, MinOf(StopwordsAt(tokens)) - 1)

\* while (tokens.length > 1 && isStopword(last)) tokens.pop()
RECURSIVE popStopwords(_)
popStopwords(tokens) ==
  IF Len(tokens) > 1 /\ isStopword(toUpperCase(tokens[Len(tokens)]))
  THEN popStopwords(SubSeq(tokens, 1, Len(tokens) - 1)) ELSE tokens

\* src lines 365-373: the phrase of the tokens left, found at start
PhrasePush(tokens, start, acc) ==
  IF Len(tokens) < 2 THEN acc
  ELSE NamePush(acc, join(tokens), join(tokens), start, start + Len(join(tokens)))

\* src lines 352-364: a model-ish token after the first, then the trailing
\* stopwords are popped
PhraseModel(tokens, start, acc) ==
  IF ~(\E i \in 2..Len(tokens) : isModelish(tokens[i])) THEN acc
  ELSE PhrasePush(popStopwords(tokens), start, acc)

\* src lines 338-350: the second token is no stopword, then the tokens are cut
\* at the first stopword
PhraseTokens(tokens, start, acc) ==
  IF isStopword(toUpperCase(IF Len(tokens) >= 2 THEN tokens[2] ELSE "")) THEN acc
  ELSE PhraseModel(truncateAtStopword(tokens), start, acc)

\* src lines 333-336: the tokens of numText and of what afterMatch captured
PhraseAfter(numText, afterText, start, acc) ==
  IF afterText = "" THEN acc
  ELSE PhraseTokens(splitWs(trim(numText \o afterText)), start, acc)

\* the callback of Phase 1 on the match m
PhraseCallback(in, m, acc) ==
  PhraseAfter(matchText(in, m),
              afterMatch(sliceFrom(in, m.index + Len(matchText(in, m)))),
              m.index, acc)

RECURSIVE PhrasePhase(_, _, _, _)
PhrasePhase(in, ms, i, acc) ==
  IF i > Len(ms) THEN acc
  ELSE PhrasePhase(in, ms, i + 1, PhraseCallback(in, ms[i], acc))

\* a Phase 2 callback that takes a model token wherever it stands
ModelTokenPushAnywhere(in, token, start, end, acc) ==
  IF isStopword(toUpperCase(token)) THEN acc
  ELSE IF ~hasModelMark(token) THEN acc
  ELSE IF \E i \in 1..Len(acc.names) : contains(acc.names[i], token) THEN acc
  ELSE [names   |-> Append(acc.names, token),
        matches |-> Append(acc.matches, RawMatch("name", token, start, end))]

\* the Phase 2 callback on the token found at start..end
ModelTokenPush(in, token, start, end, acc) ==
  IF isStopword(toUpperCase(token)) THEN acc
  ELSE IF ~hasModelMark(token) THEN acc
  ELSE IF ~nearKeywords(in, start, end, NameKeywordWindow) THEN acc
  ELSE IF \E i \in 1..Len(acc.names) : contains(acc.names[i], token) THEN acc
  ELSE [names   |-> Append(acc.names, token),
        matches |-> Append(acc.matches, RawMatch("name", token, start, end))]

\* the callback of Phase 2 on the match m
ModelTokenCallback(in, m, acc) ==
  ModelTokenPush(in, matchText(in, m), m.index, m.index + Len(matchText(in, m)), acc)

RECURSIVE ModelTokenPhase(_, _, _, _)
ModelTokenPhase(in, ms, i, acc) ==
  IF i > Len(ms) THEN acc
  ELSE ModelTokenPhase(in, ms, i + 1, ModelTokenCallback(in, ms[i], acc))

\* return { names: uniq(names), rawMatches: matches }
NamesReturned(acc) == [names |-> uniq(acc.names), rawMatches |-> acc.matches]

extractNames(in, li0, li1, li2) ==
  NamesReturned(
    ModelTokenPhase(in, forEachMatch(in, "MODEL_TOKEN_GLOBAL", li2).ms, 1,
      PhrasePhase(in, forEachMatch(in, "LOCO_NUMBER_START_GLOBAL", li1).ms, 1,
        NoSpacePhase(in, forEachMatch(in, "LOCO_NAME_NOSPACE_GLOBAL", li0).ms, 1,
          [names |-> <<>>, matches |-> <<>>]))))

(***************************************************************************)
(* computeConfidence and extractLocoQuery (src lines 398-439)              *)
(***************************************************************************)
\* /^\d{3,5}\b/.test(name)
startsWithNumber(name) == DigitsLen(name, 0) > 0

\* the confidence of the earlier extractor: any name makes it medium
computeConfidenceAnyName(assetIds, locoNos, names) ==
  IF Len(assetIds) > 0 THEN "high"
  ELSE IF Len(locoNos) > 0 \/ Len(names) > 0 THEN "medium"
  ELSE "low"

computeConfidence(assetIds, locoNos, names) ==
  IF Len(assetIds) > 0 THEN "high"
  ELSE IF Len(locoNos) > 0 THEN "medium"
  ELSE IF Len(names) > 0
       THEN (IF \E i \in 1..Len(names) : startsWithNumber(names[i])
             THEN "medium" ELSE "low")
  ELSE "low"

\* arr.sort((a, b) => a.start - b.start): a stable sort by start
RECURSIVE insertByStart(_, _)
insertByStart(sorted, x) ==
  IF Len(sorted) = 0 THEN <<x>>
  ELSE IF sorted[Len(sorted)].start <= x.start THEN Append(sorted, x)
  ELSE Append(insertByStart(SubSeq(sorted, 1, Len(sorted) - 1), x),
              sorted[Len(sorted)])

\* the array left in the order the extractors appended to it
sortByStartNone(arr, i, sorted) == arr

RECURSIVE sortByStart(_, _, _)
sortByStart(arr, i, sorted) ==
  IF i > Len(arr) THEN sorted
  ELSE sortByStart(arr, i + 1, insertByStart(sorted, arr[i]))

\* arr[0]: undefined for an empty array
Undefined == "<undefined>"

\* the last element for the first
lastElement(arr) == IF Len(arr) = 0 THEN Undefined ELSE arr[Len(arr)]

first(arr) == IF Len(arr) = 0 THEN Undefined ELSE arr[1]

\* the LocoQuery returned for what the three extractors returned (src lines 423-438)
LocoQuery(in, a, l, n) ==
  [input |-> in,
   assetIds |-> a.assetIds, locoNos |-> l.locoNos, names |-> n.names,
   assetId |-> first(a.assetIds), locoNo |-> first(l.locoNos),
   name |-> first(n.names),
   rawMatches |-> sortByStart(a.rawMatches \o l.rawMatches \o n.rawMatches, 1, <<>>),
   confidence |-> computeConfidence(a.assetIds, l.locoNos, n.names)]

\* extractLocoQuery(input) entered with the regex cursors li: the LocoQuery
\* returned and the cursors left behind, each by the scan of its regex
extractLocoQuery(in, li) ==
  [query |->
     LocoQuery(in,
       extractAssetIds(in, li["ASSET_ID_REGEX_GLOBAL"]),
       extractLocoNos(in, li["LOCO_KEYWORD_NUMBER_GLOBAL"],
                      li["LOCO_KEYWORD_NUMBER_CONCAT_GLOBAL"],
                      li["LOCO_NUMBER_GLOBAL"]),
       extractNames(in, li["LOCO_NAME_NOSPACE_GLOBAL"],
                    li["LOCO_NUMBER_START_GLOBAL"],
                    li["MODEL_TOKEN_GLOBAL"])),
   lastIndex |-> [rx \in RegexNames |-> forEachMatch(in, rx, li[rx]).lastIndex]]

(***************************************************************************)
(* The resolver of resolverStrategy.md: the candidates of a LocoQuery are   *)
(* matched against value.assetData, a list of records in key order, each    *)
(* with its key assetId, its locoNo and its name                            *)
(***************************************************************************)
\* normalizeLocoNo(x) = String(x).trim()
normalizeLocoNo(x) == trim(x)

\* normalizeName(x) = String(x).trim().toLowerCase()
normalizeName(x) == toLowerCase(trim(x))

\* Rule A: the assetId is a key of assetData
assetIdMatch(r, assetId) == r.assetId = assetId

\* Rule B: asset.locoNo === locoNo, both normalized
locoNoExact(r, locoNo) == normalizeLocoNo(r.locoNo) = normalizeLocoNo(locoNo)

\* the user provided leading zeros
hasLeadingZero(locoNo) == charAt(normalizeLocoNo(locoNo), 0) = "0"

\* the optional fallback of Rule B: Number(asset.locoNo) === Number(userLocoNo)
locoNoNumeric(r, locoNo) ==
  Number(normalizeLocoNo(r.locoNo)) = Number(normalizeLocoNo(locoNo))

\* a name rule that also takes a candidate the record's name starts with
nameMatchPrefix(r, name) ==
  slice(normalizeName(r.name), 0, Len(normalizeName(name))) = normalizeName(name)

\* Rule C: normalizeName(asset.name) === normalizeName(candidateName)
nameMatch(r, name) == normalizeName(r.name) = normalizeName(name)

\* Find all entries where ...: the entries of assetData that match a candidate
assetIdMatches(assetData, assetId) ==
  SelectSeq(assetData, LAMBDA r : assetIdMatch(r, assetId))

locoNoExactMatches(assetData, locoNo) ==
  SelectSeq(assetData, LAMBDA r : locoNoExact(r, locoNo))

locoNoNumericMatches(assetData, locoNo) ==
  SelectSeq(assetData, LAMBDA r : locoNoNumeric(r, locoNo))

nameMatches(assetData, name) ==
  SelectSeq(assetData, LAMBDA r : nameMatch(r, name))

\* Rule B for one locoNo: the exact matches, and when there is none, the
\* user provided leading zeros and the resolver applies the optional
\* fallback, the entries of equal number
locoNoMatches(assetData, exact, numericFallback, locoNo) ==
  IF Len(exact) = 0 /\ numericFallback /\ hasLeadingZero(locoNo)
  THEN locoNoNumericMatches(assetData, locoNo)
  ELSE exact

\* the entries among the matches ms[i] of a candidate with n matches, n in counts
MatchedBy(assetData, ms, counts) ==
  SelectSeq(assetData,
    LAMBDA r : \E i \in 1..Len(ms) : Len(ms[i]) \in counts /\ inArray(ms[i], r))

\* the options shown for a disambiguation
MaxOptions == 5

\* an option as the user sees it: the name, then the locoNo
formatOptionWithKey(r) == r.name \o " (" \o r.assetId \o ")"

formatOption(r) == r.name \o " (loco " \o normalizeLocoNo(r.locoNo) \o ")"

formatOptions(rs) ==
  [i \in 1..Min(Len(rs), MaxOptions) |-> formatOption(rs[i])]

DISAMBIGUATION_QUESTION ==
  "I found multiple locomotives that match that. Which one did you mean?"

MISSING_LOCO_QUESTION ==
  "Which locomotive do you mean? Please provide the locomotive number (e.g., 4430) or the full locomotive name (e.g., 4430 SD70M)."

SNAPSHOT_MISS_MESSAGE ==
  "I couldn't find that locomotive in the current dashboard data snapshot. If it was recently added, please refresh the dashboard data."

STILL_MISSING_MESSAGE ==
  "I still can't find that locomotive in the dashboard database. Please re-check the locomotive number/name and try again."

\* the outcomes
Outcome(kind, locomotives, text, options, calls) ==
  [kind |-> kind, locomotives |-> locomotives, text |-> text,
   options |-> options, recommendedCalls |-> calls]

Resolved(r) == Outcome("Resolved", <<r>>, "", <<>>, <<>>)

ResolvedMultiple(rs) == Outcome("ResolvedMultiple", rs, "", <<>>, <<>>)

Ambiguous(rs) ==
  Outcome("Ambiguous", rs, DISAMBIGUATION_QUESTION, formatOptions(rs), <<>>)

\* a stale-snapshot miss that recommends nothing
NeedsFollowupNoRefresh(confidence, context) ==
  IF confidence = "low" THEN Outcome("NeedsFollowup", <<>>, MISSING_LOCO_QUESTION, <<>>, <<>>)
  ELSE IF ~context.dashboardDataFresh
       THEN Outcome("NeedsFollowup", <<>>, SNAPSHOT_MISS_MESSAGE, <<>>, <<>>)
  ELSE Outcome("NeedsFollowup", <<>>, STILL_MISSING_MESSAGE, <<>>, <<>>)

\* nothing matched: the question for a missing locomotive when the
\* confidence is low, otherwise the snapshot-miss behaviour by the context
NeedsFollowup(confidence, context) ==
  IF confidence = "low" THEN Outcome("NeedsFollowup", <<>>, MISSING_LOCO_QUESTION, <<>>, <<>>)
  ELSE IF ~context.dashboardDataFresh
       THEN Outcome("NeedsFollowup", <<>>, SNAPSHOT_MISS_MESSAGE, <<>>,
                    <<"getDashBoardData">>)
  ELSE Outcome("NeedsFollowup", <<>>, STILL_MISSING_MESSAGE, <<>>, <<>>)

\* a rule that never tells several matches from one: the first is taken
ruleOutcomeFirst(assetData, ms, otherwise) ==
  IF Len(MatchedBy(assetData, ms, 1..Len(assetData))) > 0
  THEN Resolved(MatchedBy(assetData, ms, 1..Len(assetData))[1])
  ELSE otherwise

\* the outcome of a rule applied to each candidate, ms[i] the entries that
\* match the i-th: disambiguate among the entries that match a candidate
\* which several entries match, else resolve to the entries matched, else go
\* on to the rules that follow
ruleOutcome(assetData, ms, otherwise) ==
  IF Len(MatchedBy(assetData, ms, 2..Len(assetData))) > 0
  THEN Ambiguous(MatchedBy(assetData, ms, 2..Len(assetData)))
  ELSE IF Len(MatchedBy(assetData, ms, {1})) = 1
  THEN Resolved(MatchedBy(assetData, ms, {1})[1])
  ELSE IF Len(MatchedBy(assetData, ms, {1})) > 1
  THEN ResolvedMultiple(MatchedBy(assetData, ms, {1}))
  ELSE otherwise

\* Rule A: the keys among all the assetIds decide together
ruleA(hits, otherwise) ==
  IF Len(hits) = 1 THEN Resolved(hits[1])
  ELSE IF Len(hits) > 1 THEN Ambiguous(hits)
  ELSE otherwise

\* Rule A, for each assetId in assetIds[]
assetIdHits(q, assetData) ==
  MatchedBy(assetData,
            [i \in 1..Len(q.assetIds) |-> assetIdMatches(assetData, q.assetIds[i])],
            1..Len(assetData))

\* Rule B, for each locoNo in locoNos[]
locoNoHits(q, assetData, options) ==
  [i \in 1..Len(q.locoNos) |->
     locoNoMatches(assetData, locoNoExactMatches(assetData, q.locoNos[i]),
                   options.numericFallback, q.locoNos[i])]

\* Rule C, for each name in names[]
nameHits(q, assetData) ==
  [i \in 1..Len(q.names) |-> nameMatches(assetData, q.names[i])]

\* a resolver that tries the locoNos before the assetIds
resolveLocoNoFirst(q, assetData, context, options) ==
  ruleOutcome(assetData, locoNoHits(q, assetData, options),
    ruleA(assetIdHits(q, assetData),
      ruleOutcome(assetData, nameHits(q, assetData),
        NeedsFollowup(q.confidence, context))))

\* the resolution of the candidates of the LocoQuery q: Rules A, B, C in order
resolve(q, assetData, context, options) ==
  ruleA(assetIdHits(q, assetData),
    ruleOutcome(assetData, locoNoHits(q, assetData, options),
      ruleOutcome(assetData, nameHits(q, assetData),
        NeedsFollowup(q.confidence, context))))

(***************************************************************************)
(* The callers: a message is typed from a vocabulary of fragments and      *)
(* passed to extractLocoQuery; in Spec the caller goes on with further     *)
(* messages, the other specifications follow one message of a vocabulary   *)
(***************************************************************************)
MaxFragments == 3

\* a mixed vocabulary: keyword, numbers, a model, a domain word, an asset id
Fragments ==
  {"loco ", "#", " ", "4430", "SD70M", " due ",
   "68efff48b447af0013eb9da9", "68EFFF48B447AF0013EB9DA9"}

\* the vocabulary of the scored generic numbers
NumberFragments ==
  {"loco ", "#", " ", "top ", "4430", "368", "When is ", " due next?", " days"}

\* the vocabulary of the rejected numbers: years and durations
RejectFragments ==
  {"loco ", "#", "4430", "2024", "368", " due ", "Show inspections in ",
   "locomotive had ", " days out of service"}

\* the vocabulary of the keyword-anchored forms
KeywordFragments ==
  {"loco", "units", "Engine", " no.", " number ", " ", ":", "#",
   "2024", "4430 SD70M"}

\* the vocabulary of the name layers
NameFragments ==
  {"4430", "SD70M", "SD", "abc", "days", "-", "_", " ", "Status for ", "loco "}

\* the vocabulary of the asset-id scan
AssetFragments ==
  {"68efff48b447af0013eb9da9", "68EFFF48B447AF0013EB9DA9",
   "0123456789abcdefABCDEF00", " ", "a", "z"}

\* the vocabulary of the messages that name several locomotives
CompareFragments ==
  {"Compare ", "Compare 4430", "4430", " and ", "8778", "loco ",
   "Next inspection for "}

\* the vocabulary of the counts and limits
CountFragments ==
  {"top ", "Show ", "number of ", "4430", "368", " locos due", " loco due", "loco ", "#",
   "Show 368 locos, top "}

\* the vocabulary of the bare model tokens
TokenFragments ==
  {"loco ", "S1", "SD70", "-MAC", " ", "4430", "THE", "Status for ", " and the engine",
   "SD70-MAC "}

\* the vocabulary of the number+phrase names
PhraseFragments ==
  {"4430 SD70M", " and ", "903", " EMD", " SL-1", " due", "  ", "4430", " for", " sd70m"}

(***************************************************************************)
(* The compiled module extractLocoQuery.js (lines 1-262)                   *)
(***************************************************************************)
\* /^(\s*-\s*days?\b|\s+days?\b|-\s*days?\b)/.test(tail)
DayishCompiled(tail) ==
  \/ DaysWordAt(tail, AfterSpaces(tail, AfterDash(tail, AfterSpaces(tail, {0}))))
  \/ DaysWordAt(tail, AfterSpaces(tail, {0}) \ {0})
  \/ DaysWordAt(tail, AfterSpaces(tail, AfterDash(tail, {0})))

isFollowedByDayishCompiled(in, end) ==
  DayishCompiled(toLowerCase(slice(in, end, Min(Len(in), end + DayishTail))))

\* the callback of Phase 1: the number is pushed whether or not it was seen
KeywordCallbackCompiled(in, m, acc) ==
  [locoNos |-> Append(acc.locoNos, m.g2),
   matches |-> Append(acc.matches,
                 RawMatch("locoNo", m.g2,
                   m.index + Max(0, lastIndexOf(toLowerCase(matchText(in, m)),
                                                toLowerCase(m.g2))),
                   m.index + Max(0, lastIndexOf(toLowerCase(matchText(in, m)),
                                                toLowerCase(m.g2))) + Len(m.g2)))]

RECURSIVE KeywordPhaseCompiled(_, _, _, _)
KeywordPhaseCompiled(in, ms, i, acc) ==
  IF i > Len(ms) THEN acc
  ELSE KeywordPhaseCompiled(in, ms, i + 1, KeywordCallbackCompiled(in, ms[i], acc))

\* score += 2 near a keyword, score += 1 after a '#'
scoreCompiled(in, start, end) ==
  (IF nearKeywords(in, start, end, KeywordWindow) THEN KeywordScore ELSE 0)
  + (IF contains(slice(in, Max(0, start - HashLookBehind), start), "#")
     THEN HashScore ELSE 0)

\* the callback of Phase 2 on numText found at start..end
GenericPushCompiled(in, numText, start, end, acc) ==
  IF inArray(acc.locoNos, numText) THEN acc
  ELSE IF isFollowedByDayishCompiled(in, end) THEN acc
  ELSE IF looksLikeYear(Number(numText)) /\ ~nearKeywords(in, start, end, KeywordWindow)
       THEN acc
  ELSE IF scoreCompiled(in, start, end) < MinScore THEN acc
  ELSE [locoNos |-> Append(acc.locoNos, numText),
        matches |-> Append(acc.matches, RawMatch("locoNo", numText, start, end))]

RECURSIVE GenericPhaseCompiled(_, _, _, _)
GenericPhaseCompiled(in, ms, i, acc) ==
  IF i > Len(ms) THEN acc
  ELSE GenericPhaseCompiled(in, ms, i + 1,
         GenericPushCompiled(in, matchText(in, ms[i]), ms[i].index,
                             ms[i].index + Len(matchText(in, ms[i])), acc))

extractLocoNosCompiled(in) ==
  LocoNosReturned(
    GenericPhaseCompiled(in, forEachMatch(in, "LOCO_NUMBER_GLOBAL", 0).ms, 1,
      KeywordPhaseCompiled(in, forEachMatch(in, "LOCO_KEYWORD_NUMBER_COMPILED", 0).ms, 1,
        [locoNos |-> <<>>, matches |-> <<>>])))

\* the number+phrase layer and the model tokens; no no-space layer
extractNamesCompiled(in) ==
  NamesReturned(
    ModelTokenPhase(in, forEachMatch(in, "MODEL_TOKEN_GLOBAL", 0).ms, 1,
      PhrasePhase(in, forEachMatch(in, "LOCO_NUMBER_START_GLOBAL", 0).ms, 1,
        [names |-> <<>>, matches |-> <<>>])))

computeConfidenceCompiled(assetIds, locoNos, names) ==
  IF Len(assetIds) > 0 THEN "high"
  ELSE IF Len(locoNos) > 0 \/ Len(names) > 0 THEN "medium"
  ELSE "low"

LocoQueryCompiled(in, a, l, n) ==
  [input |-> in,
   assetIds |-> a.assetIds, locoNos |-> l.locoNos, names |-> n.names,
   assetId |-> first(a.assetIds), locoNo |-> first(l.locoNos),
   name |-> first(n.names),
   rawMatches |-> sortByStart(a.rawMatches \o l.rawMatches \o n.rawMatches, 1, <<>>),
   confidence |-> computeConfidenceCompiled(a.assetIds, l.locoNos, n.names)]

\* extractLocoQuery(input) of the compiled module; its regexes are its own,
\* and forEachMatch resets each cursor before the scan
extractLocoQueryCompiled(in) ==
  LocoQueryCompiled(in, extractAssetIds(in, 0), extractLocoNosCompiled(in),
                    extractNamesCompiled(in))

\* the vocabulary where the source and the compiled module can part
CompiledFragments ==
  {"loco ", "locos ", "loco", "4430", "SD70M", "top ", "368", "d", "SD70-MAC", " "}

\* the vocabulary of the spans: every kind of match, at offsets away from 0
SpanFragments ==
  {"loco 4430", "  ", " EMD", "903", " unit 8778", "68EFFF48B447AF0013EB9DA9",
   " ", "loco4430", "#", "SD70M"}

NoResult == [input |-> Undefined]

\* the records value.assetData may hold
MaxRecords == 6

\* the key of the i-th entry of assetData
AssetIdAt(i) == "68efff48b447af0013eb9da" \o SubSeq(DecimalDigits, i + 1, i + 1)

\* locoNo and name of the records: a locoNo to trim, names that differ in case
RecordKinds ==
  <<[locoNo |-> "903 ", name |-> "903 EMD SL-1"],
    [locoNo |-> "903", name |-> "903 emd sl-1"],
    [locoNo |-> "4430", name |-> "4430 SD70M"]>>

\* the i-th entry of assetData, of the k-th kind
AssetRecord(i, k) ==
  [assetId |-> AssetIdAt(i), kind |-> k,
   locoNo |-> RecordKinds[k].locoNo, name |-> RecordKinds[k].name]

\* the candidates extractLocoQuery hands to the resolver
AssetIdLists ==
  {<<>>, <<AssetIdAt(1)>>, <<AssetIdAt(3)>>, <<AssetIdAt(1), AssetIdAt(2)>>}

LocoNoLists == {<<>>, <<"903">>, <<"4430", "903">>, <<"0903">>, <<"4430", "0903">>}

NameLists == {<<>>, <<"903 EMD SL-1">>, <<"903 EMD">>, <<"SD70M">>}

Candidates(assetIds, locoNos, names) ==
  [assetIds |-> assetIds, locoNos |-> locoNos, names |-> names,
   confidence |-> computeConfidence(assetIds, locoNos, names)]

NoCandidates == Candidates(<<>>, <<>>, <<>>)

\* context.dashboardDataFresh
Context(fresh) == [dashboardDataFresh |-> fresh]

\* whether the resolver applies the optional numeric fallback of Rule B
Options(fallback) == [numericFallback |-> fallback]

\* no resolution has been made on the assetData
NoOutcome == Outcome("None", <<>>, "", <<>>, <<>>)

\* no forEachMatch has been entered
NoScan == [regex |-> "", matchAt |-> <<>>, lastIndex |-> 0, ms |-> <<>>]

\* the patterns forEachMatch is entered with
ScanPatterns == RegexNames \cup {"DIGITS_OPTIONAL_GLOBAL"}

\* the vocabulary of the scans
ScanFragments == {"loco ", "4430", "12", "SD70M", " ", "68efff48b447af0013eb9da9"}

(***************************************************************************)
(* The intent catalog                                                      *)
(***************************************************************************)
\* the functions of the backend the chatbot knows
FUNCTION_NAMES_ReadOnly ==
  <<"getAllLocomotives",
    "getAllTestCodes",
    "getAllLocomotivesCount",
    "getAllOutOfServiceLocomotivesCount",
    "getAllNonCompliantLocomotives",
    "getAllInspectionsCompletedTodayCount",
    "getAllDailyInspectionLocomotivesCount",
    "getAllLocomotiveLastInspectionDate",
    "getAllLocomotiveDueInspectionDate",
    "getLocoOutOfUseCredit",
    "updateDashBoardLocoState",
    "updateLocoOutOfUseCredit",
    "getLocoNextDueLocoInspection",
    "updateDashBoardLocoInspection",
    "updateDashBoardLocoMUId",
    "getDashBoardData",
    "dashBoardDataBuildUp">>

FUNCTION_NAMES ==
  <<"getAllLocomotives",
    "getAllTestCodes",
    "getAllLocomotivesCount",
    "getAllOutOfServiceLocomotivesCount",
    "getAllNonCompliantLocomotives",
    "getAllInspectionsCompletedTodayCount",
    "getAllDailyInspectionLocomotivesCount",
    "getAllLocomotiveLastInspectionDate",
    "getAllLocomotiveDueInspectionDate",
    "getLocoOutOfUseCredit",
    "updateDashBoardLocoState",
    "updateLocoOutOfUseCredit",
    "getLocoNextDueLocoInspection",
    "updateDashBoardLocoInspection",
    "getLocoMUId",
    "updateDashBoardLocoMUId",
    "getDashBoardData",
    "dashBoardDataBuildUp">>

\* a RecommendedCall, by its function
RecommendedCall(function) == [function |-> function]

\* an IntentSpec under its key: the calls it recommends and its SafetyMode
IntentSpec(id, function, safety) ==
  [id |-> id, recommendedCalls |-> <<RecommendedCall(function)>>, safety |-> safety]

\* the canonical intent catalog, in the order of its keys
INTENT_CATALOG ==
  <<IntentSpec("DASHBOARD_OVERVIEW", "getDashBoardData", "safe"),
    IntentSpec("FLEET_SIZE_TOTAL", "getAllLocomotivesCount", "safe"),
    IntentSpec("FLEET_SIZE_TOTAL_FROM_DASHBOARD", "getDashBoardData", "safe"),
    IntentSpec("OUT_OF_SERVICE_COUNT", "getAllOutOfServiceLocomotivesCount", "safe"),
    IntentSpec("OUT_OF_SERVICE_COUNT_FROM_DASHBOARD", "getDashBoardData", "safe"),
    IntentSpec("NON_COMPLIANT_COUNT", "getAllNonCompliantLocomotives", "safe"),
    IntentSpec("NON_COMPLIANT_COUNT_FROM_DASHBOARD", "getDashBoardData", "safe"),
    IntentSpec("COMPLIANT_COUNT", "getDashBoardData", "safe"),
    IntentSpec("DAILY_INSPECTIONS_COMPLETED_KPI", "getDashBoardData", "safe"),
    IntentSpec("DAILY_INSPECTIONS_DUE_KPI", "getDashBoardData", "safe"),
    IntentSpec("INSPECTIONS_COMPLETED_TODAY_COUNT", "getAllInspectionsCompletedTodayCount", "safe"),
    IntentSpec("DAILY_DUE_TODAY_COUNT", "getAllDailyInspectionLocomotivesCount", "safe"),
    IntentSpec("LIST_ALL_LOCOS_FROM_DASHBOARD", "getDashBoardData", "safe"),
    IntentSpec("LIST_OUT_OF_SERVICE_LOCOS", "getDashBoardData", "safe"),
    IntentSpec("LIST_AVAILABLE_LOCOS", "getDashBoardData", "safe"),
    IntentSpec("LIST_NON_COMPLIANT_LOCOS", "getDashBoardData", "safe"),
    IntentSpec("LIST_DAILY_DUE_LOCOS_TODAY", "getDashBoardData", "safe"),
    IntentSpec("LIST_LOCOS_MISSING_LAST_INSPECTION", "getDashBoardData", "safe"),
    IntentSpec("LIST_LOCOS_MISSING_DUE_INSPECTION", "getDashBoardData", "safe"),
    IntentSpec("LIST_LOCOS_WITH_OOU_CREDIT_AVAILABLE", "getDashBoardData", "safe"),
    IntentSpec("LIST_LOCOS_WITH_ENGINE_HOURS_OVER_THRESHOLD", "getDashBoardData", "safe"),
    IntentSpec("LIST_ALL_LOCOS_FROM_ASSET_SERVICE", "getAllLocomotives", "safe"),
    IntentSpec("FIND_LOCO_BY_ASSET_ID", "getDashBoardData", "safe"),
    IntentSpec("FIND_LOCO_BY_LOCO_NUMBER", "getDashBoardData", "safe"),
    IntentSpec("FIND_LOCO_BY_NAME", "getDashBoardData", "safe"),
    IntentSpec("LOCO_STATUS_OUT_OF_USE", "getDashBoardData", "safe"),
    IntentSpec("LOCO_OUT_OF_USE_DATE", "getDashBoardData", "safe"),
    IntentSpec("LOCO_STATUS_NON_COMPLIANT", "getDashBoardData", "safe"),
    IntentSpec("LOCO_DAILY_DUE_DATE", "getDashBoardData", "safe"),
    IntentSpec("LOCO_ENGINE_HOURS", "getDashBoardData", "safe"),
    IntentSpec("LOCO_AUTO_BLUECARD_INITIALIZE_FLAG", "getDashBoardData", "safe"),
    IntentSpec("LOCO_BASIC_METADATA", "getDashBoardData", "safe"),
    IntentSpec("LOCO_OUT_OF_USE_CREDIT_SUMMARY", "getLocoOutOfUseCredit", "safe"),
    IntentSpec("LOCO_OUT_OF_USE_CREDIT_VALUE_ONLY", "getLocoOutOfUseCredit", "safe"),
    IntentSpec("LOCO_OUT_OF_USE_DAYS_ONLY", "getLocoOutOfUseCredit", "safe"),
    IntentSpec("LOCO_OUT_OF_USE_CREDIT_FROM_DASHBOARD", "getDashBoardData", "safe"),
    IntentSpec("LOCO_NEXT_DUE_INSPECTION", "getLocoNextDueLocoInspection", "safe"),
    IntentSpec("LOCO_NEXT_DUE_INSPECTION_DATE_ONLY", "getLocoNextDueLocoInspection", "safe"),
    IntentSpec("LOCO_NEXT_DUE_INSPECTION_TEST_CODE_ONLY", "getLocoNextDueLocoInspection", "safe"),
    IntentSpec("LOCO_NEXT_DUE_INSPECTION_TITLE_ONLY", "getLocoNextDueLocoInspection", "safe"),
    IntentSpec("LOCO_DUE_INSPECTION_FROM_DASHBOARD", "getDashBoardData", "safe"),
    IntentSpec("LOCO_LAST_INSPECTION_SUMMARY", "getDashBoardData", "safe"),
    IntentSpec("LOCO_LAST_INSPECTION_DATE_ONLY", "getDashBoardData", "safe"),
    IntentSpec("LOCO_LAST_INSPECTION_TEST_CODE_ONLY", "getDashBoardData", "safe"),
    IntentSpec("LOCO_LAST_INSPECTION_TITLE_ONLY", "getDashBoardData", "safe"),
    IntentSpec("LOCO_LAST_INSPECTION_INSPECTOR_NAME", "getDashBoardData", "safe"),
    IntentSpec("LOCO_LAST_INSPECTION_INSPECTOR_EMAIL", "getDashBoardData", "safe"),
    IntentSpec("FLEET_LAST_INSPECTION_MAP", "getAllLocomotiveLastInspectionDate", "safe"),
    IntentSpec("FLEET_LAST_INSPECTED_WITHIN_RANGE", "getAllLocomotiveLastInspectionDate", "safe"),
    IntentSpec("FLEET_LAST_INSPECTION_BY_TEST_CODE", "getAllLocomotiveLastInspectionDate", "safe"),
    IntentSpec("FLEET_DUE_INSPECTION_MAP", "getAllLocomotiveDueInspectionDate", "safe"),
    IntentSpec("FLEET_DUE_IN_NEXT_7_DAYS", "getAllLocomotiveDueInspectionDate", "safe"),
    IntentSpec("FLEET_DUE_IN_NEXT_30_DAYS", "getAllLocomotiveDueInspectionDate", "safe"),
    IntentSpec("FLEET_OVERDUE_INSPECTIONS", "getAllLocomotiveDueInspectionDate", "safe"),
    IntentSpec("FLEET_DUE_BY_TEST_CODE", "getAllLocomotiveDueInspectionDate", "safe"),
    IntentSpec("LIST_TEST_CODES", "getAllTestCodes", "safe"),
    IntentSpec("VALIDATE_TEST_CODE_EXISTS", "getAllTestCodes", "safe"),
    IntentSpec("LOCO_MU_ID_READ", "getDashBoardData", "safe"),
    IntentSpec("LOCO_MU_ID_MISSING_EXPLAIN", "getDashBoardData", "safe"),
    IntentSpec("MAINT_REFRESH_REBUILD_DASHBOARD", "dashBoardDataBuildUp", "maintenance_only"),
    IntentSpec("MAINT_UPDATE_LOCO_STATE_IN_DASHBOARD", "updateDashBoardLocoState", "maintenance_only"),
    IntentSpec("MAINT_RECALC_OOU_CREDIT_AND_SAVE", "updateLocoOutOfUseCredit", "maintenance_only"),
    IntentSpec("MAINT_UPDATE_LAST_AND_DUE_INSPECTION_FIELDS", "updateDashBoardLocoInspection", "maintenance_only"),
    IntentSpec("MAINT_UPDATE_MU_ID_FIELD", "updateDashBoardLocoMUId", "maintenance_only"),
    IntentSpec("INTERNAL_RESOLVE_MU_HEAD_HELPER", "getLocoMUId", "maintenance_only")>>

\* Object.keys(INTENT_CATALOG)
ALL_INTENTS == [i \in 1..Len(INTENT_CATALOG) |-> INTENT_CATALOG[i].id]

\* INTENT_CATALOG[id]
IntentOf(id) == INTENT_CATALOG[CHOOSE i \in 1..Len(INTENT_CATALOG) : INTENT_CATALOG[i].id = id]

\* a filter that keeps every intent
isSafeAlways(id) == TRUE

\* (id) => INTENT_CATALOG[id].safety === "safe"
isSafe(id) == IntentOf(id).safety = "safe"

\* (id) => INTENT_CATALOG[id].safety === "maintenance_only"
isMaintenanceOnly(id) == IntentOf(id).safety = "maintenance_only"

SAFE_INTENTS == SelectSeq(ALL_INTENTS, isSafe)

MAINTENANCE_INTENTS == SelectSeq(ALL_INTENTS, isMaintenanceOnly)

\* new Set(FUNCTION_NAMES).has(f)
fnSetHas(f) == inArray(FUNCTION_NAMES, f)

\* the Error thrown for a stray function name
UnknownFunctionError(id, f) ==
  "Intent " \o id \o " references unknown function: " \o f

\* a leaf of the args of a recommended call: its path and its value
Arg(path, value) == [path |-> path, value |-> value]

\* an IntentSpec that requires no entity
IntentDetailNoEntities(id, requiredEntities, args, readTheseFields, followUpQuestion) ==
  [id |-> id, requiredEntities |-> <<>>, args |-> args,
   readTheseFields |-> readTheseFields, followUpQuestion |-> followUpQuestion]

\* an IntentSpec under its key: the entities it requires, the leaves of the
\* args of its recommended calls, the fields to read and the follow-up
\* question (Undefined when the intent has none)
IntentDetail(id, requiredEntities, args, readTheseFields, followUpQuestion) ==
  [id |-> id, requiredEntities |-> requiredEntities, args |-> args,
   readTheseFields |-> readTheseFields, followUpQuestion |-> followUpQuestion]

\* the entities, args, fields and follow-up questions of the intents of
\* INTENT_CATALOG, in the order of its keys
INTENT_DETAILS ==
  <<IntentDetail("DASHBOARD_OVERVIEW",
      <<>>,
      <<>>,
      <<"status", "value.summary", "value.assetData">>,
      Undefined),
    IntentDetail("FLEET_SIZE_TOTAL",
      <<>>,
      <<>>,
      <<"$">>,
      Undefined),
    IntentDetail("FLEET_SIZE_TOTAL_FROM_DASHBOARD",
      <<>>,
      <<>>,
      <<"value.summary.noOfLocomotives">>,
      Undefined),
    IntentDetail("OUT_OF_SERVICE_COUNT",
      <<>>,
      <<>>,
      <<"$">>,
      Undefined),
    IntentDetail("OUT_OF_SERVICE_COUNT_FROM_DASHBOARD",
      <<>>,
      <<>>,
      <<"value.summary.locomotivesOutOfService">>,
      Undefined),
    IntentDetail("NON_COMPLIANT_COUNT",
      <<>>,
      <<>>,
      <<"$">>,
      Undefined),
    IntentDetail("NON_COMPLIANT_COUNT_FROM_DASHBOARD",
      <<>>,
      <<>>,
      <<"value.summary.nonCompliantLocomotives">>,
      Undefined),
    IntentDetail("COMPLIANT_COUNT",
      <<>>,
      <<>>,
      <<"value.summary.compliantLocomotives">>,
      Undefined),
    IntentDetail("DAILY_INSPECTIONS_COMPLETED_KPI",
      <<>>,
      <<>>,
      <<"value.summary.locomotiveDailyInspections">>,
      Undefined),
    IntentDetail("DAILY_INSPECTIONS_DUE_KPI",
      <<>>,
      <<>>,
      <<"value.summary.locomotivesDueForDailyInspec">>,
      Undefined),
    IntentDetail("INSPECTIONS_COMPLETED_TODAY_COUNT",
      <<>>,
      <<>>,
      <<"$">>,
      Undefined),
    IntentDetail("DAILY_DUE_TODAY_COUNT",
      <<>>,
      <<>>,
      <<"$">>,
      Undefined),
    IntentDetail("LIST_ALL_LOCOS_FROM_DASHBOARD",
      <<>>,
      <<>>,
      <<"value.assetData", "value.assetData.<assetId>.id", "value.assetData.<assetId>.locoNo", "value.assetData.<assetId>.name", "value.assetData.<assetId>.muId">>,
      Undefined),
    IntentDetail("LIST_OUT_OF_SERVICE_LOCOS",
      <<>>,
      <<>>,
      <<"value.assetData.<assetId>.assetStates.outOfUse", "value.assetData.<assetId>.locoNo", "value.assetData.<assetId>.name">>,
      Undefined),
    IntentDetail("LIST_AVAILABLE_LOCOS",
      <<>>,
      <<>>,
      <<"value.assetData.<assetId>.assetStates.outOfUse", "value.assetData.<assetId>.locoNo", "value.assetData.<assetId>.name">>,
      Undefined),
    IntentDetail("LIST_NON_COMPLIANT_LOCOS",
      <<>>,
      <<>>,
      <<"value.assetData.<assetId>.assetStates.nonCompliant", "value.assetData.<assetId>.locoNo", "value.assetData.<assetId>.name">>,
      Undefined),
    IntentDetail("LIST_DAILY_DUE_LOCOS_TODAY",
      <<>>,
      <<>>,
      <<"value.assetData.<assetId>.assetStates.dailyDue", "value.assetData.<assetId>.locoNo", "value.assetData.<assetId>.name">>,
      "Do you mean due *today* (within the service's day bounds) or a custom date range?"),
    IntentDetail("LIST_LOCOS_MISSING_LAST_INSPECTION",
      <<>>,
      <<>>,
      <<"value.assetData.<assetId>.LastInspec", "value.assetData.<assetId>.locoNo", "value.assetData.<assetId>.name">>,
      Undefined),
    IntentDetail("LIST_LOCOS_MISSING_DUE_INSPECTION",
      <<>>,
      <<>>,
      <<"value.assetData.<assetId>.DueInspec", "value.assetData.<assetId>.locoNo", "value.assetData.<assetId>.name">>,
      Undefined),
    IntentDetail("LIST_LOCOS_WITH_OOU_CREDIT_AVAILABLE",
      <<>>,
      <<>>,
      <<"value.assetData.<assetId>.outOfUseCredit.status", "value.assetData.<assetId>.outOfUseCredit.credit", "value.assetData.<assetId>.locoNo", "value.assetData.<assetId>.name">>,
      Undefined),
    IntentDetail("LIST_LOCOS_WITH_ENGINE_HOURS_OVER_THRESHOLD",
      <<"thresholdHours">>,
      <<>>,
      <<"value.assetData.<assetId>.assetStates.engineHour", "value.assetData.<assetId>.locoNo", "value.assetData.<assetId>.name">>,
      "What engine-hour threshold should I use (e.g., 10000)?"),
    IntentDetail("LIST_ALL_LOCOS_FROM_ASSET_SERVICE",
      <<>>,
      <<>>,
      <<"[].*_id", "[].attributes">>,
      Undefined),
    IntentDetail("FIND_LOCO_BY_ASSET_ID",
      <<"assetId">>,
      <<>>,
      <<"value.assetData.<assetId>">>,
      "What is the locomotive assetId?"),
    IntentDetail("FIND_LOCO_BY_LOCO_NUMBER",
      <<"locoNo">>,
      <<>>,
      <<"value.assetData.<assetId>.locoNo", "value.assetData.<assetId>.id", "value.assetData.<assetId>.name">>,
      "Which locomotive number (e.g., 4430)?"),
    IntentDetail("FIND_LOCO_BY_NAME",
      <<"name">>,
      <<>>,
      <<"value.assetData.<assetId>.name", "value.assetData.<assetId>.id", "value.assetData.<assetId>.locoNo">>,
      "Which locomotive name (or a unique fragment)?"),
    IntentDetail("LOCO_STATUS_OUT_OF_USE",
      <<"assetId">>,
      <<>>,
      <<"value.assetData.<assetId>.assetStates.outOfUse">>,
      "Which locomotive (assetId or number)?"),
    IntentDetail("LOCO_OUT_OF_USE_DATE",
      <<"assetId">>,
      <<>>,
      <<"value.assetData.<assetId>.assetStates.outOfUseDate">>,
      "Which locomotive (assetId or number)?"),
    IntentDetail("LOCO_STATUS_NON_COMPLIANT",
      <<"assetId">>,
      <<>>,
      <<"value.assetData.<assetId>.assetStates.nonCompliant">>,
      "Which locomotive (assetId or number)?"),
    IntentDetail("LOCO_DAILY_DUE_DATE",
      <<"assetId">>,
      <<>>,
      <<"value.assetData.<assetId>.assetStates.dailyDue">>,
      "Which locomotive (assetId or number)?"),
    IntentDetail("LOCO_ENGINE_HOURS",
      <<"assetId">>,
      <<>>,
      <<"value.assetData.<assetId>.assetStates.engineHour">>,
      "Which locomotive (assetId or number)?"),
    IntentDetail("LOCO_AUTO_BLUECARD_INITIALIZE_FLAG",
      <<"assetId">>,
      <<>>,
      <<"value.assetData.<assetId>.assetStates.autoBlueCardInitialize">>,
      "Which locomotive (assetId or number)?"),
    IntentDetail("LOCO_BASIC_METADATA",
      <<"assetId">>,
      <<>>,
      <<"value.assetData.<assetId>.id", "value.assetData.<assetId>.locoNo", "value.assetData.<assetId>.name", "value.assetData.<assetId>.muId">>,
      "Which locomotive (assetId or number)?"),
    IntentDetail("LOCO_OUT_OF_USE_CREDIT_SUMMARY",
      <<"assetId">>,
      <<Arg("assetId", "$assetId")>>,
      <<"credit", "outOfUseDays", "status">>,
      "Which locomotive assetId (or loco number so I can look it up)?"),
    IntentDetail("LOCO_OUT_OF_USE_CREDIT_VALUE_ONLY",
      <<"assetId">>,
      <<Arg("assetId", "$assetId")>>,
      <<"credit">>,
      "Which locomotive assetId (or loco number so I can look it up)?"),
    IntentDetail("LOCO_OUT_OF_USE_DAYS_ONLY",
      <<"assetId">>,
      <<Arg("assetId", "$assetId")>>,
      <<"outOfUseDays">>,
      "Which locomotive assetId (or loco number so I can look it up)?"),
    IntentDetail("LOCO_OUT_OF_USE_CREDIT_FROM_DASHBOARD",
      <<"assetId">>,
      <<>>,
      <<"value.assetData.<assetId>.outOfUseCredit.credit", "value.assetData.<assetId>.outOfUseCredit.outOfUseDays", "value.assetData.<assetId>.outOfUseCredit.status">>,
      "Which locomotive (assetId or number)?"),
    IntentDetail("LOCO_NEXT_DUE_INSPECTION",
      <<"assetId">>,
      <<Arg("assetId", "$assetId")>>,
      <<"nextExpiryDate", "title", "testCode">>,
      "Which locomotive assetId (or loco number so I can look it up)?"),
    IntentDetail("LOCO_NEXT_DUE_INSPECTION_DATE_ONLY",
      <<"assetId">>,
      <<Arg("assetId", "$assetId")>>,
      <<"nextExpiryDate">>,
      "Which locomotive assetId (or loco number so I can look it up)?"),
    IntentDetail("LOCO_NEXT_DUE_INSPECTION_TEST_CODE_ONLY",
      <<"assetId">>,
      <<Arg("assetId", "$assetId")>>,
      <<"testCode">>,
      "Which locomotive assetId (or loco number so I can look it up)?"),
    IntentDetail("LOCO_NEXT_DUE_INSPECTION_TITLE_ONLY",
      <<"assetId">>,
      <<Arg("assetId", "$assetId")>>,
      <<"title">>,
      "Which locomotive assetId (or loco number so I can look it up)?"),
    IntentDetail("LOCO_DUE_INSPECTION_FROM_DASHBOARD",
      <<"assetId">>,
      <<>>,
      <<"value.assetData.<assetId>.DueInspec.nextExpiryDate", "value.assetData.<assetId>.DueInspec.title", "value.assetData.<assetId>.DueInspec.testCode">>,
      "Which locomotive (assetId or number)?"),
    IntentDetail("LOCO_LAST_INSPECTION_SUMMARY",
      <<"assetId">>,
      <<>>,
      <<"value.assetData.<assetId>.LastInspec.date", "value.assetData.<assetId>.LastInspec.title", "value.assetData.<assetId>.LastInspec.testCode">>,
      "Which locomotive (assetId or number)?"),
    IntentDetail("LOCO_LAST_INSPECTION_DATE_ONLY",
      <<"assetId">>,
      <<>>,
      <<"value.assetData.<assetId>.LastInspec.date">>,
      "Which locomotive (assetId or number)?"),
    IntentDetail("LOCO_LAST_INSPECTION_TEST_CODE_ONLY",
      <<"assetId">>,
      <<>>,
      <<"value.assetData.<assetId>.LastInspec.testCode">>,
      "Which locomotive (assetId or number)?"),
    IntentDetail("LOCO_LAST_INSPECTION_TITLE_ONLY",
      <<"assetId">>,
      <<>>,
      <<"value.assetData.<assetId>.LastInspec.title">>,
      "Which locomotive (assetId or number)?"),
    IntentDetail("LOCO_LAST_INSPECTION_INSPECTOR_NAME",
      <<"assetId">>,
      <<>>,
      <<"value.assetData.<assetId>.LastInspec.user.name">>,
      "Which locomotive (assetId or number)?"),
    IntentDetail("LOCO_LAST_INSPECTION_INSPECTOR_EMAIL",
      <<"assetId">>,
      <<>>,
      <<"value.assetData.<assetId>.LastInspec.user.email">>,
      "Which locomotive (assetId or number)?"),
    IntentDetail("FLEET_LAST_INSPECTION_MAP",
      <<>>,
      <<>>,
      <<"<assetId>.date", "<assetId>.title", "<assetId>.testCode", "<assetId>.user">>,
      Undefined),
    IntentDetail("FLEET_LAST_INSPECTED_WITHIN_RANGE",
      <<"startDate", "endDate">>,
      <<>>,
      <<"<assetId>.date", "<assetId>.title", "<assetId>.testCode">>,
      "What date range should I use? (start + end)"),
    IntentDetail("FLEET_LAST_INSPECTION_BY_TEST_CODE",
      <<"testCode">>,
      <<>>,
      <<"<assetId>.testCode", "<assetId>.date", "<assetId>.title">>,
      "Which test code?"),
    IntentDetail("FLEET_DUE_INSPECTION_MAP",
      <<>>,
      <<>>,
      <<"<assetId>.nextExpiryDate", "<assetId>.title", "<assetId>.testCode">>,
      Undefined),
    IntentDetail("FLEET_DUE_IN_NEXT_7_DAYS",
      <<>>,
      <<>>,
      <<"<assetId>.nextExpiryDate", "<assetId>.title", "<assetId>.testCode">>,
      Undefined),
    IntentDetail("FLEET_DUE_IN_NEXT_30_DAYS",
      <<>>,
      <<>>,
      <<"<assetId>.nextExpiryDate", "<assetId>.title", "<assetId>.testCode">>,
      Undefined),
    IntentDetail("FLEET_OVERDUE_INSPECTIONS",
      <<>>,
      <<>>,
      <<"<assetId>.nextExpiryDate", "<assetId>.title", "<assetId>.testCode">>,
      "Should I exclude locomotives with no due date (missing nextExpiryDate), or list them as 'unknown'?"),
    IntentDetail("FLEET_DUE_BY_TEST_CODE",
      <<"testCode">>,
      <<>>,
      <<"<assetId>.testCode", "<assetId>.nextExpiryDate", "<assetId>.title">>,
      "Which test code?"),
    IntentDetail("LIST_TEST_CODES",
      <<>>,
      <<>>,
      <<"$">>,
      Undefined),
    IntentDetail("VALIDATE_TEST_CODE_EXISTS",
      <<"testCode">>,
      <<>>,
      <<"$">>,
      "Which test code are you checking?"),
    IntentDetail("LOCO_MU_ID_READ",
      <<"assetId">>,
      <<>>,
      <<"value.assetData.<assetId>.muId">>,
      "Which locomotive (assetId or number)?"),
    IntentDetail("LOCO_MU_ID_MISSING_EXPLAIN",
      <<"assetId">>,
      <<>>,
      <<"value.assetData.<assetId>.muId">>,
      "Which locomotive (assetId or number)?"),
    IntentDetail("MAINT_REFRESH_REBUILD_DASHBOARD",
      <<"confirmWrite">>,
      <<>>,
      <<"$">>,
      "This action has side effects. If you really want it, confirm with CONFIRM_WRITE."),
    IntentDetail("MAINT_UPDATE_LOCO_STATE_IN_DASHBOARD",
      <<"locoId", "confirmWrite">>,
      <<Arg("locoId", "$locoId")>>,
      <<"$">>,
      "This action has side effects. Provide locoId and confirm with CONFIRM_WRITE."),
    IntentDetail("MAINT_RECALC_OOU_CREDIT_AND_SAVE",
      <<"locoId", "confirmWrite">>,
      <<Arg("locoId", "$locoId")>>,
      <<"$">>,
      "This action has side effects. Provide locoId and confirm with CONFIRM_WRITE."),
    IntentDetail("MAINT_UPDATE_LAST_AND_DUE_INSPECTION_FIELDS",
      <<"date", "unitId", "title", "testCode", "userObject", "confirmWrite">>,
      <<Arg("date", "$date"), Arg("unit.id", "$unitId"), Arg("testInfo.title", "$title"), Arg("testInfo.testCode", "$testCode"), Arg("testInfo.user", "$userObject")>>,
      <<"$">>,
      "This action has side effects. Provide date, unitId, test title, test code, user info, and confirm with CONFIRM_WRITE."),
    IntentDetail("MAINT_UPDATE_MU_ID_FIELD",
      <<"locoId", "confirmWrite">>,
      <<Arg("locoId", "$locoId")>>,
      <<"$">>,
      "This action has side effects. Provide locoId and confirm with CONFIRM_WRITE."),
    IntentDetail("INTERNAL_RESOLVE_MU_HEAD_HELPER",
      <<"locoId", "locos">>,
      <<Arg("locoId", "$locoId"), Arg("locos", "$locos")>>,
      <<"$">>,
      "This is an internal helper. Provide locoId and a locos array (usually value.assetData values).")>>

\* the sensitive fields of a locomotive, always redacted
REDACTED_PATHS ==
  <<"LastInspec.user.email",
    "LastInspec.user.signature",
    "LastInspec.user.signature.md5",
    "LastInspec.user.signature.status",
    "LastInspec.user.signature.imgName">>

\* the field is a sensitive path of some locomotive, whatever its key
isRedacted(field) ==
  \E k \in 1..Len(REDACTED_PATHS) :
    /\ Len(REDACTED_PATHS[k]) <= Len(field)
    /\ sliceFrom(field, Len(field) - Len(REDACTED_PATHS[k])) = REDACTED_PATHS[k]

\* validateIntentCatalog is not running
NoValidation == [pc |-> "idle", i |-> 0, j |-> 0, error |-> ""]

Init ==
  /\ input = ""
  /\ fragments = 0
  /\ result = NoResult
  /\ lastIndex = [rx \in RegexNames |-> 0]
  /\ pc = "compose"
  /\ earlier = FALSE
  /\ scan = NoScan
  /\ validation = NoValidation
  /\ resolver = [assetData |-> <<>>, q |-> NoCandidates, context |-> Context(FALSE),
                 options |-> Options(FALSE), outcome |-> NoOutcome]

\* the user types one more fragment of the message
Type(f) ==
  /\ pc = "compose"
  /\ fragments < MaxFragments
  /\ input' = input \o f
  /\ fragments' = fragments + 1
  /\ UNCHANGED <<result, lastIndex, pc, earlier, resolver, scan, validation>>

\* the caller passes the message to extractLocoQuery
Call ==
  /\ pc = "compose"
  /\ \E r \in {extractLocoQuery(input, lastIndex)} :
       /\ result' = r.query
       /\ lastIndex' = r.lastIndex
  /\ pc' = "done"
  /\ UNCHANGED <<input, fragments, earlier, resolver, scan, validation>>

\* the caller passes the message to extractLocoQuery of the compiled module
CallCompiled ==
  /\ pc = "compose"
  /\ result' = extractLocoQueryCompiled(input)
  /\ pc' = "compiled"
  /\ UNCHANGED <<input, fragments, lastIndex, earlier, resolver, scan, validation>>

\* the caller starts the next message; the module-level regexes live on
NextMessage ==
  /\ pc = "done"
  /\ input' = ""
  /\ fragments' = 0
  /\ result' = NoResult
  /\ pc' = "compose"
  /\ earlier' = TRUE
  /\ UNCHANGED <<lastIndex, resolver, scan, validation>>

\* forEachMatch(input, regex, cb) is entered: regex.lastIndex = 0
StartScan(rx) ==
  /\ pc = "compose"
  /\ scan' = [regex |-> rx, matchAt |-> MatchesFrom(rx, input, 0),
              lastIndex |-> 0, ms |-> <<>>]
  /\ pc' = "scanning"
  /\ UNCHANGED <<input, fragments, result, lastIndex, earlier, resolver, validation>>

\* one evaluation of the while condition, m the result of its exec: on null
\* the loop ends with the cursor at 0, otherwise the body runs, cb(m) and the
\* step past an empty match
ScanStep(m) ==
  /\ scan' = IF m = NoMatch
             THEN [scan EXCEPT !.lastIndex = lastIndexAfter(m)]
             ELSE [scan EXCEPT !.lastIndex = lastIndexAfterBody(m),
                               !.ms = Append(scan.ms, m)]
  /\ pc' = IF m = NoMatch THEN "scanned" ELSE "scanning"

ScanIteration ==
  /\ pc = "scanning"
  /\ \E m \in {execAt(scan.matchAt, scan.lastIndex, Len(input))} : ScanStep(m)
  /\ UNCHANGED <<input, fragments, result, lastIndex, earlier, resolver, validation>>

\* the app's dashboard data gains a record before the resolver is called;
\* the rules do not look at the order of the entries, which come kind by kind
AddRecord(kind) ==
  /\ resolver.outcome = NoOutcome
  /\ Len(resolver.assetData) < MaxRecords
  /\ \A i \in 1..Len(resolver.assetData) : resolver.assetData[i].kind <= kind
  /\ resolver' =
       [resolver EXCEPT
          !.assetData = Append(@, AssetRecord(Len(@) + 1, kind))]
  /\ UNCHANGED <<input, fragments, result, lastIndex, pc, earlier, scan, validation>>

\* the candidates q are resolved against the assetData at hand
Resolve(q, context, options) ==
  /\ resolver.outcome = NoOutcome
  /\ resolver' =
       [resolver EXCEPT
          !.q = q, !.context = context, !.options = options,
          !.outcome = resolve(q, resolver.assetData, context, options)]
  /\ UNCHANGED <<input, fragments, result, lastIndex, pc, earlier, scan, validation>>

\* validateIntentCatalog() is called: the set of function names is built and
\* the loop over Object.entries(INTENT_CATALOG) starts
validateIntentCatalog ==
  /\ validation.pc = "idle"
  /\ validation' = [validation EXCEPT !.pc = "entries", !.i = 1]
  /\ UNCHANGED <<input, fragments, result, lastIndex, pc, earlier, resolver, scan>>

\* for (const [id, spec] of Object.entries(INTENT_CATALOG)): the next entry,
\* or the return after the last
NextEntry ==
  /\ validation.pc = "entries"
  /\ validation' =
       IF validation.i > Len(INTENT_CATALOG)
       THEN [validation EXCEPT !.pc = "returned"]
       ELSE [validation EXCEPT !.pc = "calls", !.j = 1]
  /\ UNCHANGED <<input, fragments, result, lastIndex, pc, earlier, resolver, scan>>

\* for (const call of spec.recommendedCalls): the throw for a function name
\* that is not in the set, the next call, or the next entry after the last
NextCall ==
  /\ validation.pc = "calls"
  /\ validation' =
       IF validation.j > Len(INTENT_CATALOG[validation.i].recommendedCalls)
       THEN [validation EXCEPT !.pc = "entries", !.i = @ + 1, !.j = 0]
       ELSE IF ~fnSetHas(INTENT_CATALOG[validation.i].recommendedCalls[validation.j].function)
       THEN [validation EXCEPT
               !.pc = "thrown",
               !.error = UnknownFunctionError(INTENT_CATALOG[validation.i].id,
                           INTENT_CATALOG[validation.i].recommendedCalls[validation.j].function)]
       ELSE [validation EXCEPT !.j = @ + 1]
  /\ UNCHANGED <<input, fragments, result, lastIndex, pc, earlier, resolver, scan>>

\* message after message
Next ==
  \/ \E f \in Fragments : Type(f)
  \/ Call
  \/ NextMessage

Spec == Init /\ [][Next]_vars

\* one message of the mixed vocabulary
NextMixed ==
  \/ \E f \in Fragments : Type(f)
  \/ Call

SpecMixed == Init /\ [][NextMixed]_vars

NextNumbers ==
  \/ \E f \in NumberFragments : Type(f)
  \/ Call

SpecNumbers == Init /\ [][NextNumbers]_vars

NextRejects ==
  \/ \E f \in RejectFragments : Type(f)
  \/ Call

SpecRejects == Init /\ [][NextRejects]_vars

NextKeywords ==
  \/ \E f \in KeywordFragments : Type(f)
  \/ Call

SpecKeywords == Init /\ [][NextKeywords]_vars

NextNames ==
  \/ \E f \in NameFragments : Type(f)
  \/ Call

SpecNames == Init /\ [][NextNames]_vars

NextAssets ==
  \/ \E f \in AssetFragments : Type(f)
  \/ Call

SpecAssets == Init /\ [][NextAssets]_vars

NextCompare ==
  \/ \E f \in CompareFragments : Type(f)
  \/ Call

SpecCompare == Init /\ [][NextCompare]_vars

NextCounts ==
  \/ \E f \in CountFragments : Type(f)
  \/ Call

SpecCounts == Init /\ [][NextCounts]_vars

NextTokens ==
  \/ \E f \in TokenFragments : Type(f)
  \/ Call

SpecTokens == Init /\ [][NextTokens]_vars

NextPhrases ==
  \/ \E f \in PhraseFragments : Type(f)
  \/ Call

SpecPhrases == Init /\ [][NextPhrases]_vars

\* one message, passed to the source or to the compiled module
NextCompiled ==
  \/ \E f \in CompiledFragments : Type(f)
  \/ Call
  \/ CallCompiled

SpecCompiled == Init /\ [][NextCompiled]_vars

\* one message with matches of every kind
NextSpans ==
  \/ \E f \in SpanFragments : Type(f)
  \/ Call

SpecSpans == Init /\ [][NextSpans]_vars

\* the resolver at work on the dashboard data as it grows
NextResolver ==
  \/ \E kind \in 1..Len(RecordKinds) : AddRecord(kind)
  \/ \E assetIds \in AssetIdLists, locoNos \in LocoNoLists, names \in NameLists,
        fresh \in BOOLEAN, fallback \in BOOLEAN :
        Resolve(Candidates(assetIds, locoNos, names), Context(fresh), Options(fallback))

SpecResolver == Init /\ [][NextResolver]_vars

\* one scan of a message among the scans' vocabulary; the loop of
\* forEachMatch runs to its end without yielding, so an iteration that can
\* be made is made
NextScan ==
  \/ \E f \in ScanFragments : Type(f)
  \/ \E rx \in ScanPatterns : StartScan(rx)
  \/ ScanIteration

SpecScan == Init /\ [][NextScan]_vars /\ WF_vars(ScanIteration)

\* the catalog is validated in dev/test
NextCatalog ==
  \/ validateIntentCatalog
  \/ NextEntry
  \/ NextCall

SpecCatalog == Init /\ [][NextCatalog]_vars

(***************************************************************************)
(* Properties                                                              *)
(***************************************************************************)
InitialCursors == [rx \in RegexNames |-> 0]

\* what a first call of extractLocoQuery on s returns
FirstCall(s) == extractLocoQuery(s, InitialCursors).query

\* the raw matches of one kind
matchesOfKind(q, kind) == SelectSeq(q.rawMatches, LAMBDA r : r.kind = kind)

NoDuplicates(arr) ==
  \A i, j \in 1..Len(arr) : i # j => arr[i] # arr[j]

\* C1: after any sequence of earlier calls, a call on s returns what a first
\* call on s returns, and no call leaves a regex cursor away from 0
C1_Deterministic ==
  /\ lastIndex = InitialCursors
  /\ pc = "done" => result = FirstCall(input)

\* after an earlier call, a call whose scans walked over several matches has
\* returned what a first call returns
C1_Witness ==
  /\ pc = "done"
  /\ earlier
  /\ Len(result.rawMatches) >= 2
  /\ result = FirstCall(input)

\* C2: assetIds, locoNos and names hold no value twice
C2_Uniqueness ==
  pc = "done" =>
    /\ NoDuplicates(result.assetIds)
    /\ NoDuplicates(result.locoNos)
    /\ NoDuplicates(result.names)

\* the same number was accepted at two places of the message and is listed once
C2_Witness ==
  /\ pc = "done"
  /\ result.locoNos = <<"4430">>
  /\ Len(matchesOfKind(result, "locoNo")) = 2

\* a name that begins with a 3-5 digit number
numberedName(name) ==
  LET n == RunLen(name, 0, Digits) IN n >= MinDigits /\ n <= MaxDigits

\* C3: confidence is high with an assetId, else medium with a locoNo, else
\* medium with a name that begins with a 3-5 digit number, else low
C3_Confidence ==
  pc = "done" =>
    result.confidence =
      (IF result.assetIds # <<>> THEN "high"
       ELSE IF result.locoNos # <<>> THEN "medium"
       ELSE IF \E i \in 1..Len(result.names) : numberedName(result.names[i])
            THEN "medium"
       ELSE "low")

\* only bare model tokens were found, and the confidence is low
C3_Witness ==
  /\ pc = "done"
  /\ result.assetIds = <<>>
  /\ result.locoNos = <<>>
  /\ result.names # <<>>
  /\ \A i \in 1..Len(result.names) : ~numberedName(result.names[i])
  /\ result.confidence = "low"

(***************************************************************************)
(* Loco numbers: tokens, anchors, signals                                  *)
(***************************************************************************)
\* the offsets of s where a 3-5 digit token stands between word edges
NumberTokens(s) ==
  {p \in 0..Len(s) :
     /\ charAt(s, p) \in Digits
     /\ charAt(s, p - 1) \notin WordChars
     /\ RunLen(s, p, Digits) \in 3..5
     /\ charAt(s, p + RunLen(s, p, Digits)) \notin WordChars}

tokenAt(s, p) == slice(s, p, p + RunLen(s, p, Digits))

tokenEnd(s, p) == p + RunLen(s, p, Digits)

\* the offsets where the token num stands
Occurrences(s, num) == {p \in NumberTokens(s) : tokenAt(s, p) = num}

\* the numbers that Phase 1a or Phase 1b captures after a loco keyword
PhaseOneNumbers(s) ==
  LET a == forEachMatch(s, "LOCO_KEYWORD_NUMBER_GLOBAL", 0).ms
      b == forEachMatch(s, "LOCO_KEYWORD_NUMBER_CONCAT_GLOBAL", 0).ms
  IN  {a[i].g2 : i \in 1..Len(a)} \cup {b[i].g2 : i \in 1..Len(b)}

\* a loco keyword stands as a whole word inside the 20 characters around p..e
KeywordInWindow(s, p, e) ==
  LET ctx == toLowerCase(slice(s, Max(0, p - 20), Min(Len(s), e + 20)))
  IN  \E q \in 0..Len(ctx) : \E k \in Keywords :
        /\ slice(ctx, q, q + Len(k)) = k
        /\ charAt(ctx, q - 1) \notin WordChars
        /\ charAt(ctx, q + Len(k)) \notin WordChars

\* a '#' stands among the two characters before p
HashBefore(s, p) == charAt(s, p - 1) = "#" \/ charAt(s, p - 2) = "#"

InYearBand(num) == Number(num) >= 1900 /\ Number(num) <= 2099

\* the signals that score the token at p
SignalCount(s, p) ==
  (IF KeywordInWindow(s, p, tokenEnd(s, p)) THEN 2 ELSE 0)
  + (IF HashBefore(s, p) THEN 1 ELSE 0)
  + (IF hasDomainContext(s) THEN 1 ELSE 0)

C5_YearRejection ==
  pc = "done" =>
    /\ \A p \in NumberTokens(input) :
         LET num == tokenAt(input, p)
         IN  (InYearBand(num) /\ num \notin PhaseOneNumbers(input))
             => ~inArray(result.locoNos, num)
    /\ input = "Show inspections in 2024" => result.locoNos = <<>>

\* a year with a loco keyword in its window was left out
C5_Witness ==
  /\ pc = "done"
  /\ \E p \in NumberTokens(input) :
       /\ InYearBand(tokenAt(input, p))
       /\ tokenAt(input, p) \notin PhaseOneNumbers(input)
       /\ SignalCount(input, p) >= 2
       /\ ~inArray(result.locoNos, tokenAt(input, p))

\* '-day', '-days', ' day' or ' days' as a whole word right after offset e
DaySuffixAt(s, e) ==
  \E suf \in {"-day", "-days", " day", " days"} :
    /\ toLowerCase(slice(s, e, e + Len(suf))) = suf
    /\ charAt(s, e + Len(suf)) \notin WordChars

NumberAt(s, d) ==
  LET n == RunLen(s, d, Digits)
  IN  IF n \in 3..5 /\ charAt(s, d + n) \notin WordChars
      THEN slice(s, d, d + n) ELSE ""

\* what may stand between a keyword and its number: blanks, then 'no', 'no.'
\* or 'number', blanks, one separator, blanks; every part optional, up to two
\* blanks in a gap
Blanks == {"", " ", "  "}

Between ==
  {w1 \o nw \o w2 \o sep \o w3 :
     w1 \in Blanks, nw \in {"", "no", "no.", "number"}, w2 \in Blanks,
     sep \in {"", ":", "#", "-"}, w3 \in Blanks}

\* the keyword k stands at offset p of s, a word edge before it, in any case
KeywordAt(s, p, k) ==
  /\ charAt(s, p - 1) \notin WordChars
  /\ toLowerCase(slice(s, p, p + Len(k))) = k

\* the numbers that follow a whole-word keyword of kws
SpacedNumbers(s, kws) ==
  UNION {UNION {{NumberAt(s, p + Len(k) + Len(b)) :
                   b \in {x \in Between :
                            slice(s, p + Len(k), p + Len(k) + Len(x)) = x}}
                : k \in {x \in kws : /\ KeywordAt(s, p, x)
                                     /\ charAt(s, p + Len(x)) \notin WordChars}}
         : p \in 0..Len(s)} \ {""}

\* the numbers glued to a keyword of kws
GluedNumbers(s, kws) ==
  UNION {{NumberAt(s, p + Len(k)) : k \in {x \in kws : KeywordAt(s, p, x)}}
         : p \in 0..Len(s)} \ {""}

\* C7 as stated: the number that follows a keyword, singular or plural, with
\* the optional parts between or glued to it, is in locoNos
C7_AnchoredAnyKeywordGlued ==
  pc = "done" =>
    \A num \in SpacedNumbers(input, KeywordsPlural)
                 \cup GluedNumbers(input, KeywordsPlural) :
      inArray(result.locoNos, num)

\* C7 (amended): the 3-5 digit number ending at a word edge that follows a
\* whole-word keyword (singular or plural) with the optional 'no'/'no.'/'number'
\* and separator between, or that is glued to a singular keyword at a word
\* start, is in locoNos, also with a value in 1900-2099; "loco 4430 SD70M"
\* gives locoNos = ["4430"] and the name "4430 SD70M"
C7_KeywordAnchored ==
  pc = "done" =>
    /\ \A num \in SpacedNumbers(input, KeywordsPlural)
                    \cup GluedNumbers(input, Keywords) :
         inArray(result.locoNos, num)
    /\ input = "loco 4430 SD70M"
         => /\ result.locoNos = <<"4430">>
            /\ inArray(result.names, "4430 SD70M")

\* a year glued to a keyword is a loco number
C7_Witness ==
  /\ pc = "done"
  /\ \E num \in GluedNumbers(input, Keywords) :
       InYearBand(num) /\ inArray(result.locoNos, num)

(***************************************************************************)
(* Domain context                                                          *)
(***************************************************************************)
\* C8: in an input with a domain-context word, a 3-5 digit token that is not
\* in 1900-2099, not followed by a day-suffix and not a count/limit number is
\* in locoNos, with or without a loco keyword or a '#'; "When is 4430 due
\* next?" gives locoNos = ["4430"], names = [] and confidence medium
C8_DomainContext ==
  pc = "done" =>
    /\ hasDomainContext(input) =>
         \A p \in NumberTokens(input) :
           (/\ ~InYearBand(tokenAt(input, p))
            /\ ~isFollowedByDayish(input, tokenEnd(input, p))
            /\ ~looksLikeCountNumber(input, p, tokenEnd(input, p)))
           => inArray(result.locoNos, tokenAt(input, p))
    /\ input = "When is 4430 due next?"
         => /\ result.locoNos = <<"4430">>
            /\ result.names = <<>>
            /\ result.confidence = "medium"

\* a number whose only signal is the domain context was accepted
C8_Witness ==
  /\ pc = "done"
  /\ \E p \in NumberTokens(input) :
       /\ hasDomainContext(input)
       /\ SignalCount(input, p) = 1
       /\ tokenAt(input, p) \notin PhaseOneNumbers(input)
       /\ inArray(result.locoNos, tokenAt(input, p))

(***************************************************************************)
(* No-space compounds                                                      *)
(***************************************************************************)
\* contains a digit, hyphen or slash, or is at least 2 characters and fully
\* upper-case
ModelLooking(t) ==
  \/ \E k \in 0..(Len(t) - 1) : charAt(t, k) \in Digits \cup {"-", "/"}
  \/ Len(t) >= 2 /\ \A k \in 0..(Len(t) - 1) : charAt(t, k) \notin LowerLetters

\* the name matches of the result
NameMatches == matchesOfKind(result, "name")

\* the whole token glued to a digit run that ends at offset a: a letter, then
\* letters, digits, '-' and '/' as far as they go; "" if no letter stands at a
GluedToken(s, a) ==
  IF charAt(s, a) \in Letters THEN slice(s, a, a + RunLen(s, a, ModelChars))
  ELSE ""

\* C9 as stated: every 3-5 digit run immediately followed by a model-looking
\* token that is not a stopword gives the name "<number> <model>" and a name
\* match with the unspaced text and its span
C9_EveryCompoundSplit ==
  pc = "done" =>
    \A p \in 0..Len(input) :
      LET n     == RunLen(input, p, Digits)
          num   == slice(input, p, p + n)
          model == GluedToken(input, p + n)
      IN  (/\ charAt(input, p - 1) \notin Digits
           /\ n \in 3..5
           /\ model # ""
           /\ ModelLooking(model)
           /\ toUpperCase(model) \notin NAME_STOPWORDS)
          => /\ inArray(result.names, num \o " " \o model)
             /\ inArray(NameMatches,
                        RawMatch("name", num \o model, p, p + n + Len(model)))

\* the token the compound regex takes at offset a: a letter first, 3 to 16
\* characters of letters, digits, '-' and '/', as long as possible with a word
\* edge at its end; "" if there is none
CompoundToken(s, a) ==
  LET run == RunLen(s, a, ModelChars)
      ls  == {l \in 3..16 : /\ l <= run
                            /\ (charAt(s, a + l - 1) \in WordChars)
                                 # (charAt(s, a + l) \in WordChars)}
  IN  IF charAt(s, a) \in Letters /\ ls # {}
      THEN slice(s, a, a + (CHOOSE l \in ls : \A k \in ls : k <= l))
      ELSE ""

\* the offsets where a compound may start: a digit at the start of the input
\* or after a character that is no word character, '-' or '/'
CompoundStarts(s) ==
  {p \in 0..Len(s) :
     /\ charAt(s, p) \in Digits
     /\ charAt(s, p - 1) \notin WordChars \cup {"-", "/"}
     /\ RunLen(s, p, Digits) \in 3..5}

\* C9 (amended): a 3-5 digit run that starts the input or follows a character
\* other than a word character, '-' or '/', immediately followed by a model
\* token of 3 to 16 characters that ends at a word edge, is model-looking and
\* is not a stopword, gives the name "<number> <model>" with one space
\* inserted, and a name match whose text is the unspaced text, spanning an
\* occurrence of it; "Status for 4430SD70M" gives the name "4430 SD70M"
C9_NoSpaceSplit ==
  pc = "done" =>
    /\ \A p \in CompoundStarts(input) :
         LET n     == RunLen(input, p, Digits)
             num   == slice(input, p, p + n)
             model == CompoundToken(input, p + n)
         IN  (/\ model # ""
              /\ ModelLooking(model)
              /\ toUpperCase(model) \notin NAME_STOPWORDS)
             => /\ inArray(result.names, num \o " " \o model)
                /\ \E i \in 1..Len(NameMatches) :
                     /\ NameMatches[i].text = num \o model
                     /\ slice(input, NameMatches[i].start, NameMatches[i].end)
                          = num \o model
    /\ input = "Status for 4430SD70M" => inArray(result.names, "4430 SD70M")

\* a compound was split: the name has the space, the match has not
C9_Witness ==
  /\ pc = "done"
  /\ \E p \in CompoundStarts(input) :
       /\ CompoundToken(input, p + 4) = "SD70M"
       /\ inArray(result.names, "4430 SD70M")
       /\ inArray(NameMatches, RawMatch("name", "4430SD70M", p, p + 9))

(***************************************************************************)
(* Asset ids                                                               *)
(***************************************************************************)
\* the offsets where a 24-character hexadecimal token stands between word edges
AssetOccurrences(s) ==
  {p \in 0..Len(s) :
     /\ charAt(s, p - 1) \notin WordChars
     /\ \A k \in 0..23 : charAt(s, p + k) \in HexChars
     /\ charAt(s, p + 24) \notin WordChars}

AssetMatches == matchesOfKind(result, "assetId")

\* the offset of the first occurrence of the asset id, compared in lower case
FirstOccurrence(s, id) ==
  CHOOSE p \in AssetOccurrences(s) :
    /\ toLowerCase(slice(s, p, p + 24)) = id
    /\ \A q \in AssetOccurrences(s) :
         toLowerCase(slice(s, q, q + 24)) = id => p <= q

\* C10: every 24-character hexadecimal token between word edges gives its
\* lower-cased form to assetIds; assetIds holds nothing else, holds no value
\* twice and is in the order of first occurrence; the assetId matches are the
\* occurrences, one each, with the text as typed and the occurrence's span
C10_AssetIds ==
  pc = "done" =>
    LET occ == AssetOccurrences(input)
    IN  /\ \A p \in occ :
             inArray(result.assetIds, toLowerCase(slice(input, p, p + 24)))
        /\ \A i \in 1..Len(result.assetIds) :
             \E p \in occ : result.assetIds[i] = toLowerCase(slice(input, p, p + 24))
        /\ NoDuplicates(result.assetIds)
        /\ \A i, j \in 1..Len(result.assetIds) :
             i < j => FirstOccurrence(input, result.assetIds[i])
                        < FirstOccurrence(input, result.assetIds[j])
        /\ Len(AssetMatches) = Cardinality(occ)
        /\ \A p \in occ :
             inArray(AssetMatches,
                     RawMatch("assetId", slice(input, p, p + 24), p, p + 24))

\* one asset id typed in two casings: one assetId, two matches
C10_Witness ==
  /\ pc = "done"
  /\ Len(result.assetIds) = 1
  /\ Len(AssetMatches) = 2
  /\ AssetMatches[1].text # AssetMatches[2].text

\* the matches of the three extractors in the order extractLocoQuery spreads
\* them into one array, before the sort
ExtractorMatches(s) ==
  extractAssetIds(s, 0).rawMatches \o extractLocoNos(s, 0, 0, 0).rawMatches
    \o extractNames(s, 0, 0, 0).rawMatches

\* how many times r occurs in arr
CountIn(arr, r) == Cardinality({i \in 1..Len(arr) : arr[i] = r})

\* C11: rawMatches holds the matches of the assetId, locoNo and name
\* extractors, each as many times as the extractors reported it and nothing
\* else, in non-decreasing order of start offset
C11_SortedMatches ==
  pc = "done" =>
    /\ \A i \in 1..(Len(result.rawMatches) - 1) :
         result.rawMatches[i].start <= result.rawMatches[i + 1].start
    /\ Len(result.rawMatches) = Len(ExtractorMatches(input))
    /\ \A i \in 1..Len(result.rawMatches) :
         CountIn(result.rawMatches, result.rawMatches[i])
           = CountIn(ExtractorMatches(input), result.rawMatches[i])

\* a locomotive number typed before an asset id: the extractors report the
\* asset id first, rawMatches holds the number first
C11_Witness ==
  /\ pc = "done"
  /\ Len(result.rawMatches) >= 2
  /\ result.rawMatches # ExtractorMatches(input)
  /\ result.rawMatches[1].kind = "locoNo"
  /\ \E i \in 2..Len(result.rawMatches) : result.rawMatches[i].kind = "assetId"

\* the scan cursor moves forward in every iteration that finds a match: past
\* the match, and one position further when the match is empty
ForwardProgress ==
  (pc = "scanning" /\ pc' = "scanning") =>
    /\ scan'.lastIndex > scan.lastIndex
    /\ Len(scan'.ms) = Len(scan.ms) + 1
    /\ LET m == scan'.ms[Len(scan'.ms)]
       IN  /\ m.index >= scan.lastIndex
           /\ scan'.lastIndex = IF m.end = m.index THEN m.end + 1 ELSE m.end

\* C12: every iteration of a forEachMatch scan strictly advances the cursor,
\* the scan ends, at most one match per position of the input behind it, and
\* for the regexes of extractLocoQuery it has handed to cb the matches the
\* extractors work on
C12_ForwardProgress ==
  /\ [][ForwardProgress]_vars
  /\ [](pc = "scanning" => scan.lastIndex <= Len(input) + 1)
  /\ (pc = "scanning") ~> (pc = "scanned")
  /\ [](pc = "scanned" /\ scan.regex \in RegexNames =>
          /\ scan.ms = forEachMatch(input, scan.regex, 0).ms
          /\ scan.lastIndex = 0)

\* a finished scan that came over an empty match and over a longer one
C12_Witness ==
  /\ pc = "scanned"
  /\ \E i \in 1..Len(scan.ms) : scan.ms[i].end = scan.ms[i].index
  /\ \E i \in 1..Len(scan.ms) : scan.ms[i].end > scan.ms[i].index + 1

\* C13: a message that names two locomotives by bare number joined by "and",
\* "Compare 4430 and 8778", gives both numbers in locoNos, in the order
\* typed, and confidence medium
C13_MultipleBareNumbers ==
  (pc = "done" /\ input = "Compare 4430 and 8778") =>
    /\ result.locoNos = <<"4430", "8778">>
    /\ result.confidence = "medium"

(***************************************************************************)
(* The resolver                                                            *)
(***************************************************************************)
\* a resolution has been made
Resolving == resolver.outcome.kind # "None"

\* the entries whose key is an extracted assetId
KeyedEntries ==
  SelectSeq(resolver.assetData, LAMBDA r : inArray(resolver.q.assetIds, r.assetId))

\* the entries whose locoNo, trimmed, is the locoNo
EntriesWithLocoNo(locoNo) ==
  SelectSeq(resolver.assetData, LAMBDA r : trim(r.locoNo) = trim(locoNo))

\* the entries whose number is that of a locoNo typed with leading zeros that
\* no entry has as typed, when the resolver applies the numeric fallback
EntriesWithNumber(locoNo) ==
  SelectSeq(resolver.assetData,
    LAMBDA r : /\ resolver.options.numericFallback
               /\ charAt(trim(locoNo), 0) = "0"
               /\ Len(EntriesWithLocoNo(locoNo)) = 0
               /\ Number(trim(r.locoNo)) = Number(trim(locoNo)))

\* the entries whose full name is the name, whatever the case
EntriesWithName(name) ==
  SelectSeq(resolver.assetData,
    LAMBDA r : toLowerCase(trim(r.name)) = toLowerCase(trim(name)))

\* some extracted locoNo matches an entry
LocoNoFound ==
  \E i \in 1..Len(resolver.q.locoNos) :
    Len(EntriesWithLocoNo(resolver.q.locoNos[i]))
      + Len(EntriesWithNumber(resolver.q.locoNos[i])) > 0

\* the resolution of the candidates q on the data, context and options at hand
ResolutionOf(q) ==
  resolve(q, resolver.assetData, resolver.context, resolver.options)

\* C14: the priority is assetId, then locoNo, then name: one extracted
\* assetId that is a key resolves to its entry whatever the locoNos and names
\* match; when an extracted assetId is a key the outcome is the one without
\* the locoNos and names, and when none is a key and an extracted locoNo
\* matches, the outcome is the one without the names
C14_Priority ==
  Resolving =>
    /\ Len(KeyedEntries) = 1 =>
         /\ resolver.outcome.kind = "Resolved"
         /\ resolver.outcome.locomotives = KeyedEntries
    /\ Len(KeyedEntries) > 0 =>
         resolver.outcome
           = ResolutionOf([resolver.q EXCEPT !.locoNos = <<>>, !.names = <<>>])
    /\ (Len(KeyedEntries) = 0 /\ LocoNoFound) =>
         /\ resolver.outcome = ResolutionOf([resolver.q EXCEPT !.names = <<>>])
         /\ \A i \in 1..Len(resolver.outcome.locomotives) :
              \E j \in 1..Len(resolver.q.locoNos) :
                inArray(EntriesWithLocoNo(resolver.q.locoNos[j])
                          \o EntriesWithNumber(resolver.q.locoNos[j]),
                        resolver.outcome.locomotives[i])

\* resolved by its key while an extracted locoNo matches two other entries
\* and an extracted name matches an entry
C14_Witness ==
  /\ resolver.outcome.kind = "Resolved"
  /\ Len(KeyedEntries) = 1
  /\ \E i \in 1..Len(resolver.q.locoNos) :
       /\ Len(EntriesWithLocoNo(resolver.q.locoNos[i])) >= 2
       /\ ~inArray(EntriesWithLocoNo(resolver.q.locoNos[i]), KeyedEntries[1])
  /\ \E i \in 1..Len(resolver.q.names) :
       Len(EntriesWithName(resolver.q.names[i])) > 0

\* the entries an extracted locoNo matches: by its trimmed locoNo, or by its
\* number where the fallback applies
EntriesMatching(locoNo) == EntriesWithLocoNo(locoNo) \o EntriesWithNumber(locoNo)

\* the entries matched by an extracted locoNo that matches several entries
SharedLocoNoEntries ==
  SelectSeq(resolver.assetData,
    LAMBDA r : \E j \in 1..Len(resolver.q.locoNos) :
      /\ inArray(EntriesMatching(resolver.q.locoNos[j]), r)
      /\ Len(EntriesMatching(resolver.q.locoNos[j])) >= 2)

\* C15 as stated: whenever an extracted locoNo is the trimmed locoNo of two
\* or more entries, the outcome is Ambiguous with exactly those entries
C15_AmbiguousWheneverShared ==
  Resolving =>
    \A i \in 1..Len(resolver.q.locoNos) :
      Len(EntriesWithLocoNo(resolver.q.locoNos[i])) >= 2 =>
        /\ resolver.outcome.kind = "Ambiguous"
        /\ resolver.outcome.locomotives = EntriesWithLocoNo(resolver.q.locoNos[i])

\* C15: locoNos are compared trimmed, and when no extracted assetId is a key
\* and an extracted locoNo is the trimmed locoNo of two or more entries, the
\* outcome is Ambiguous, never Resolved, with exactly the entries matched by
\* an extracted locoNo that matches several
C15_AmbiguitySurfaces ==
  (Resolving /\ Len(KeyedEntries) = 0) =>
    \A i \in 1..Len(resolver.q.locoNos) :
      Len(EntriesWithLocoNo(resolver.q.locoNos[i])) >= 2 =>
        /\ resolver.outcome.kind = "Ambiguous"
        /\ resolver.outcome.locomotives = SharedLocoNoEntries
        /\ \A j \in 1..Len(EntriesWithLocoNo(resolver.q.locoNos[i])) :
             inArray(resolver.outcome.locomotives,
                     EntriesWithLocoNo(resolver.q.locoNos[i])[j])

\* "903" resolved against two entries, one of them with locoNo "903 "
C15_Witness ==
  /\ resolver.outcome.kind = "Ambiguous"
  /\ Len(KeyedEntries) = 0
  /\ resolver.q.locoNos = <<"903">>
  /\ Len(resolver.outcome.locomotives) = 2
  /\ resolver.outcome.locomotives = EntriesWithLocoNo("903")
  /\ \E i \in 1..2 : resolver.outcome.locomotives[i].locoNo = "903 "

\* some extracted name is the full name of an entry
NameFound ==
  \E i \in 1..Len(resolver.q.names) : Len(EntriesWithName(resolver.q.names[i])) > 0

\* every matching rule falls through
NothingMatched == Len(KeyedEntries) = 0 /\ ~LocoNoFound /\ ~NameFound

\* the outcome by the freshness of the dashboard data alone
FreshnessDecides ==
  /\ resolver.outcome.kind = "NeedsFollowup"
  /\ resolver.outcome.locomotives = <<>>
  /\ ~resolver.context.dashboardDataFresh =>
       /\ resolver.outcome.text = SNAPSHOT_MISS_MESSAGE
       /\ resolver.outcome.recommendedCalls = <<"getDashBoardData">>
  /\ resolver.context.dashboardDataFresh =>
       /\ resolver.outcome.text = STILL_MISSING_MESSAGE
       /\ resolver.outcome.recommendedCalls = <<>>

\* C16 as stated: whenever every matching rule falls through, the outcome is
\* NeedsFollowup with the snapshot-miss message and the getDashBoardData
\* recommendation on stale data, the final message and no call on fresh data
C16_FreshnessWheneverNotFound ==
  (Resolving /\ NothingMatched) => FreshnessDecides

\* C16: when every matching rule falls through the outcome is NeedsFollowup;
\* for candidates of confidence high or medium it carries the snapshot-miss
\* message and recommends getDashBoardData on stale data, the final message
\* and no call on fresh data; for confidence low (nothing or only model
\* tokens extracted) it asks which locomotive is meant and recommends no call
C16_NotFound ==
  (Resolving /\ NothingMatched) =>
    /\ resolver.outcome.kind = "NeedsFollowup"
    /\ resolver.q.confidence # "low" => FreshnessDecides
    /\ resolver.q.confidence = "low" =>
         /\ resolver.outcome.locomotives = <<>>
         /\ resolver.outcome.text = MISSING_LOCO_QUESTION
         /\ resolver.outcome.recommendedCalls = <<>>

\* a locoNo that no entry of a stale snapshot has: the refresh is recommended
C16_Witness ==
  /\ resolver.outcome.kind = "NeedsFollowup"
  /\ Len(resolver.assetData) > 0
  /\ resolver.q.locoNos = <<"903">>
  /\ resolver.q.confidence = "medium"
  /\ ~resolver.context.dashboardDataFresh
  /\ resolver.outcome.text = SNAPSHOT_MISS_MESSAGE
  /\ resolver.outcome.recommendedCalls = <<"getDashBoardData">>

\* the entry is one of the supplied snapshot
InSnapshot(r) == \E i \in 1..Len(resolver.assetData) : resolver.assetData[i] = r

\* the entry matches an extracted candidate exactly: by its key, by its
\* trimmed locoNo or by its full name whatever the case
MatchedExactly(r) ==
  \/ inArray(resolver.q.assetIds, r.assetId)
  \/ \E i \in 1..Len(resolver.q.locoNos) : trim(r.locoNo) = trim(resolver.q.locoNos[i])
  \/ \E i \in 1..Len(resolver.q.names) :
       toLowerCase(trim(r.name)) = toLowerCase(trim(resolver.q.names[i]))

\* the entry has the number of an extracted locoNo typed with leading zeros
\* that no entry has as typed, the resolver applying the numeric fallback
MatchedByNumber(r) ==
  \E i \in 1..Len(resolver.q.locoNos) : inArray(EntriesWithNumber(resolver.q.locoNos[i]), r)

\* no extracted name is the full name of an entry, and nothing else was extracted
OnlyUnknownNames ==
  /\ resolver.q.assetIds = <<>>
  /\ resolver.q.locoNos = <<>>
  /\ Len(resolver.q.names) > 0
  /\ ~NameFound

\* C17 as stated: every locomotive of an outcome is an entry of the snapshot
\* matched exactly by key, trimmed locoNo or full name
C17_ExactMatchesOnly ==
  Resolving =>
    \A i \in 1..Len(resolver.outcome.locomotives) :
      /\ InSnapshot(resolver.outcome.locomotives[i])
      /\ MatchedExactly(resolver.outcome.locomotives[i])

\* C17: no match is fabricated or guessed: every locomotive of a Resolved,
\* ResolvedMultiple or Ambiguous outcome is an entry of the supplied snapshot
\* matched exactly by key, trimmed locoNo or full name whatever the case, or,
\* when the numeric fallback is applied, by the number of a locoNo typed with
\* leading zeros that no entry has as typed; such an outcome has a locomotive,
\* and names that are the full name of no entry resolve to nothing
C17_NoFabrication ==
  Resolving =>
    /\ \A i \in 1..Len(resolver.outcome.locomotives) :
         /\ InSnapshot(resolver.outcome.locomotives[i])
         /\ \/ MatchedExactly(resolver.outcome.locomotives[i])
            \/ MatchedByNumber(resolver.outcome.locomotives[i])
    /\ ~resolver.options.numericFallback =>
         \A i \in 1..Len(resolver.outcome.locomotives) :
           MatchedExactly(resolver.outcome.locomotives[i])
    /\ resolver.outcome.kind \in {"Resolved", "ResolvedMultiple", "Ambiguous"} =>
         Len(resolver.outcome.locomotives) > 0
    /\ OnlyUnknownNames =>
         /\ resolver.outcome.kind = "NeedsFollowup"
         /\ resolver.outcome.locomotives = <<>>

\* a locoNo typed with a leading zero resolves by its number to the one entry
\* of the snapshot that has it, and to no entry without the fallback
C17_Witness ==
  /\ resolver.q.locoNos = <<"0903">>
  /\ resolver.q.assetIds = <<>>
  /\ resolver.options.numericFallback
  /\ resolver.outcome.kind = "Resolved"
  /\ InSnapshot(resolver.outcome.locomotives[1])
  /\ trim(resolver.outcome.locomotives[1].locoNo) = "903"
  /\ ~MatchedExactly(resolver.outcome.locomotives[1])

\* the options of the outcome, the candidates they are shown for
ShownOptions == resolver.outcome.options

\* the text of an option for an entry: name (loco <locoNo>)
OptionText(r) == r.name \o " (loco " \o trim(r.locoNo) \o ")"

\* C18: the disambiguation is bounded and hides the key: at most 5 options
\* are shown, the first candidates in order, each as name (loco <locoNo>),
\* and no option contains the assetId of an entry of the snapshot
C18_BoundedOptions ==
  Resolving =>
    /\ Len(ShownOptions) <= 5
    /\ resolver.outcome.kind = "Ambiguous" =>
         /\ Len(ShownOptions) = Min(Len(resolver.outcome.locomotives), 5)
         /\ Len(ShownOptions) >= 2
         /\ resolver.outcome.text = DISAMBIGUATION_QUESTION
    /\ resolver.outcome.kind # "Ambiguous" => ShownOptions = <<>>
    /\ \A i \in 1..Len(ShownOptions) :
         /\ ShownOptions[i] = OptionText(resolver.outcome.locomotives[i])
         /\ \A j \in 1..Len(resolver.assetData) :
              ~contains(ShownOptions[i], resolver.assetData[j].assetId)

\* six entries share the locoNo: five options are shown for the six candidates
C18_Witness ==
  /\ resolver.outcome.kind = "Ambiguous"
  /\ Len(resolver.outcome.locomotives) = 6
  /\ Len(ShownOptions) = 5
  /\ ShownOptions[1] = "903 EMD SL-1 (loco 903)"

\* the functions an intent recommends
FunctionsOf(spec) ==
  {spec.recommendedCalls[j].function : j \in 1..Len(spec.recommendedCalls)}

\* the names of FUNCTION_NAMES
KnownFunctions == {FUNCTION_NAMES[k] : k \in 1..Len(FUNCTION_NAMES)}

\* the recommended call the validation is looking at
CallInHand ==
  INTENT_CATALOG[validation.i].recommendedCalls[validation.j].function

\* C19: recommendations come from the catalog of functions only: every
\* function of a recommended call of every intent is one of FUNCTION_NAMES,
\* and validateIntentCatalog never throws: it looks at each call of each
\* entry and returns after the last
C19_CatalogOnly ==
  /\ \A i \in 1..Len(INTENT_CATALOG) : FunctionsOf(INTENT_CATALOG[i]) \subseteq KnownFunctions
  /\ validation.pc # "thrown"
  /\ validation.error = ""
  /\ validation.pc = "calls" =>
       /\ validation.i \in 1..Len(INTENT_CATALOG)
       /\ validation.j <= Len(INTENT_CATALOG[validation.i].recommendedCalls) =>
            CallInHand \in KnownFunctions
  /\ validation.pc = "returned" => validation.i = Len(INTENT_CATALOG) + 1

\* validateIntentCatalog has returned, the last entry being an internal helper
C19_Witness ==
  /\ validation.pc = "returned"
  /\ validation.i = 66
  /\ INTENT_CATALOG[65].id = "INTERNAL_RESOLVE_MU_HEAD_HELPER"
  /\ FunctionsOf(INTENT_CATALOG[65]) = {"getLocoMUId"}

\* the blocked functions: the writes, the rebuild and the internal helper
BlockedFunctions ==
  {"updateDashBoardLocoState", "updateLocoOutOfUseCredit",
   "updateDashBoardLocoInspection", "updateDashBoardLocoMUId",
   "dashBoardDataBuildUp", "getLocoMUId"}

RedactedFieldsOf(detail) ==
  {detail.readTheseFields[k] : k \in {n \in 1..Len(detail.readTheseFields) :
                                        isRedacted(detail.readTheseFields[n])}}

\* C21: redacted fields are never among readTheseFields: no field that a safe
\* intent of INTENT_CATALOG tells to read is one of the redacted paths
C21_NoRedactedFields ==
  /\ \A i \in 1..Len(INTENT_DETAILS) :
       IntentOf(INTENT_DETAILS[i].id).safety = "safe" =>
         RedactedFieldsOf(INTENT_DETAILS[i]) = {}
  /\ validation.pc = "calls" /\ INTENT_CATALOG[validation.i].safety = "safe" =>
       /\ INTENT_DETAILS[validation.i].id = INTENT_CATALOG[validation.i].id
       /\ RedactedFieldsOf(INTENT_DETAILS[validation.i]) = {}

\* the value of an arg is a template: "$name"
isPlaceholder(value) == Len(value) > 1 /\ charAt(value, 0) = "$"

\* the entities named by the templates among the args of an intent, at any depth
PlaceholdersOf(detail) ==
  {sliceFrom(detail.args[k].value, 1) :
     k \in {n \in 1..Len(detail.args) : isPlaceholder(detail.args[n].value)}}

\* the entities an intent requires
RequiredEntitiesOf(detail) ==
  {detail.requiredEntities[k] : k \in 1..Len(detail.requiredEntities)}

\* the templates of the intent can be bound, and the intent can ask for
\* the entities it requires
Bindable(detail) ==
  /\ PlaceholdersOf(detail) \subseteq RequiredEntitiesOf(detail)
  /\ Len(detail.requiredEntities) > 0 => detail.followUpQuestion # Undefined

\* C30: the templates are always bindable: each "$name" among the args of
\* the recommended calls of an intent, at any depth, names one of the
\* intent's requiredEntities, and every intent that requires an entity
\* defines a followUpQuestion
C30_Bindable ==
  /\ \A i \in 1..Len(INTENT_DETAILS) : Bindable(INTENT_DETAILS[i])
  /\ validation.pc = "calls" =>
       /\ INTENT_DETAILS[validation.i].id = INTENT_CATALOG[validation.i].id
       /\ Bindable(INTENT_DETAILS[validation.i])

\* the validation looks at the write of the inspection fields, whose args
\* hold templates below the top level
C30_Witness ==
  /\ validation.pc = "calls"
  /\ INTENT_CATALOG[validation.i].id = "MAINT_UPDATE_LAST_AND_DUE_INSPECTION_FIELDS"
  /\ \E k \in 1..Len(INTENT_DETAILS[validation.i].args) :
       INTENT_DETAILS[validation.i].args[k] = Arg("unit.id", "$unitId")
  /\ PlaceholdersOf(INTENT_DETAILS[validation.i]) =
       {"date", "unitId", "title", "testCode", "userObject"}
  /\ inArray(INTENT_DETAILS[validation.i].requiredEntities, "confirmWrite")
  /\ INTENT_DETAILS[validation.i].followUpQuestion # Undefined

(***************************************************************************)
(* Counts and limits                                                       *)
(***************************************************************************)
\* one of the words, whatever its case, stands as a whole word before p with
\* nothing but blanks between, inside the 20 characters before p
WordBefore(s, p, words) ==
  \E w \in words : \E k \in 0..(20 - Len(w)) :
    /\ p - k - Len(w) >= 0
    /\ \A j \in (p - k)..(p - 1) : charAt(s, j) \in Whitespace
    /\ toLowerCase(slice(s, p - k - Len(w), p - k)) = w
    /\ \/ p - k - Len(w) = Max(0, p - 20)
       \/ charAt(s, p - k - Len(w) - 1) \notin WordChars

\* 'number of' or 'count of' before p
CountOfBefore(s, p) ==
  \E k \in 0..17 : \E g \in 1..17 :
    /\ p - k - 2 - g >= 0
    /\ \A j \in (p - k)..(p - 1) : charAt(s, j) \in Whitespace
    /\ toLowerCase(slice(s, p - k - 2, p - k)) = "of"
    /\ \A j \in (p - k - 2 - g)..(p - k - 3) : charAt(s, j) \in Whitespace
    /\ WordBefore(slice(s, Max(0, p - 20), p - k - 2 - g),
                  p - k - 2 - g - Max(0, p - 20), {"number", "count"})

\* a counted noun, in the plural, right after e
CountedNounAfter(s, e) ==
  \E w \in {"inspections", "locos", "locomotives", "units", "engines",
            "records", "items", "results"} :
    \E k \in 0..(25 - Len(w)) :
      /\ \A j \in e..(e + k - 1) : charAt(s, j) \in Whitespace
      /\ toLowerCase(slice(s, e + k, e + k + Len(w))) = w
      /\ \/ e + k + Len(w) = e + 25
         \/ charAt(s, e + k + Len(w)) \notin WordChars

\* the token at p reads as a count or a limit
CountPhraseAt(s, p) ==
  \/ WordBefore(s, p, {"top", "first", "last", "limit"})
  \/ CountOfBefore(s, p)
  \/ /\ WordBefore(s, p, {"show", "list", "display", "get", "give", "find"})
     /\ CountedNounAfter(s, tokenEnd(s, p))

\* C22: a 3-5 digit token that reads as a count or a limit is rejected by
\* the generic phase whatever its score: no locoNo match stands on it unless
\* Phase 1a/1b captured its number, and a number all of whose tokens read so
\* is in locoNos only when Phase 1a/1b captured it
C22_CountRejection ==
  pc = "done" =>
    \A p \in NumberTokens(input) :
      CountPhraseAt(input, p) =>
        /\ looksLikeCountNumber(input, p, tokenEnd(input, p))
        /\ \A i \in 1..Len(result.rawMatches) :
             (result.rawMatches[i].kind = "locoNo" /\ result.rawMatches[i].start = p)
               => result.rawMatches[i].text \in PhaseOneNumbers(input)
        /\ (\A q \in Occurrences(input, tokenAt(input, p)) : CountPhraseAt(input, q))
             => (inArray(result.locoNos, tokenAt(input, p))
                   => tokenAt(input, p) \in PhaseOneNumbers(input))

\* a number of locos to show and a limit, the limit with a loco keyword in
\* its window and a domain word in the message, were left out
C22_Witness ==
  /\ pc = "done"
  /\ \E p \in NumberTokens(input) :
       /\ WordBefore(input, p, {"show"})
       /\ CountedNounAfter(input, tokenEnd(input, p))
       /\ SignalCount(input, p) >= 1
  /\ \E p \in NumberTokens(input) :
       /\ WordBefore(input, p, {"top"})
       /\ SignalCount(input, p) >= 3
       /\ ~InYearBand(tokenAt(input, p))
       /\ ~inArray(result.locoNos, tokenAt(input, p))
  /\ result.locoNos = <<>>

(***************************************************************************)
(* Bare model tokens                                                       *)
(***************************************************************************)
\* a loco keyword stands as a whole word inside the w characters around p..e
KeywordWithin(s, p, e, w) ==
  \E k \in Keywords :
    \E q \in 0..(Min(Len(s), e + w) - Max(0, p - w)) :
      /\ toLowerCase(slice(s, Max(0, p - w) + q, Max(0, p - w) + q + Len(k))) = k
      /\ Max(0, p - w) + q + Len(k) <= Min(Len(s), e + w)
      /\ q = 0 \/ charAt(s, Max(0, p - w) + q - 1) \notin WordChars
      /\ \/ Max(0, p - w) + q + Len(k) = Min(Len(s), e + w)
         \/ charAt(s, Max(0, p - w) + q + Len(k)) \notin WordChars

\* the length of the upper-case token that starts at offset p, 0 when none
\* does: an upper-case letter at a word edge and upper-case letters, digits,
\* '-' or '/' after it, as many as end at a word edge, lo to 16 in all
TokenLenAt(s, p, lo) ==
  IF charAt(s, p) \in UpperLetters /\ charAt(s, p - 1) \notin WordChars
  THEN MaxOf({0} \cup
         {n \in lo..Min(16, RunLen(s, p, UpperModelChars)) :
            (charAt(s, p + n - 1) \in WordChars) # (charAt(s, p + n) \in WordChars)})
  ELSE 0

\* the upper-case tokens of s from offset p on, one after the other, as
\* <<offset, length>>
RECURSIVE TokenScan(_, _, _)
TokenScan(s, p, lo) ==
  IF p >= Len(s) THEN {}
  ELSE IF TokenLenAt(s, p, lo) > 0
       THEN {<<p, TokenLenAt(s, p, lo)>>} \cup TokenScan(s, p + TokenLenAt(s, p, lo), lo)
       ELSE TokenScan(s, p + 1, lo)

\* the tokens among them with a digit, a '-' or a '/'
UpperTokens(s, lo) ==
  {t \in TokenScan(s, 0, lo) : hasModelMark(slice(s, t[1], t[1] + t[2]))}

\* the names the no-space and number+phrase layers capture: they begin with
\* the number
NumberedNames(q) == {q.names[i] : i \in {j \in 1..Len(q.names) : numberedName(q.names[j])}}

\* the model tokens captured before offset p
TokensBefore(q, p) ==
  {q.rawMatches[i].text :
     i \in {j \in 1..Len(q.rawMatches) :
              /\ q.rawMatches[j].kind = "name"
              /\ q.rawMatches[j].start < p
              /\ ~numberedName(q.rawMatches[j].text)
              /\ charAt(q.rawMatches[j].text, 0) \in UpperLetters}}

\* the token t of the input is a name match of the result
TokenCaptured(q, s, t) ==
  \E i \in 1..Len(q.rawMatches) :
    q.rawMatches[i] = RawMatch("name", slice(s, t[1], t[1] + t[2]), t[1], t[1] + t[2])

PhraseMatches(q) ==
  {q.rawMatches[i] :
     i \in {j \in 1..Len(q.rawMatches) :
              q.rawMatches[j].kind = "name" /\ contains(q.rawMatches[j].text, " ")}}

\* the token that follows the blanks after offset e
NextToken(s, e) ==
  slice(s, e + RunLen(s, e, Whitespace),
        e + RunLen(s, e, Whitespace)
          + RunLen(s, e + RunLen(s, e, Whitespace), ModelChars))

C25_SpanInvariant ==
  pc = "done" =>
    \A i \in 1..Len(result.rawMatches) :
      /\ 0 <= result.rawMatches[i].start
      /\ result.rawMatches[i].start < result.rawMatches[i].end
      /\ result.rawMatches[i].end <= Len(input)

\* a number found after its keyword, away from offset 0, and a phrase whose
\* span ends before the end of the message
C25_Witness ==
  /\ pc = "done"
  /\ \E i \in 1..Len(result.rawMatches) :
       /\ result.rawMatches[i].kind = "locoNo"
       /\ result.rawMatches[i].start > 0
       /\ result.rawMatches[i].end = result.rawMatches[i].start + 4
  /\ \E r \in PhraseMatches(result) : r.start > 0 /\ r.end < Len(input)

\* C26: the text of every raw match is the input between start and end,
\* input.slice(start, end) = text, also for a phrase whose tokens stand more
\* than one blank apart
C26_SpanTextAgreement ==
  pc = "done" =>
    \A i \in 1..Len(result.rawMatches) :
      slice(input, result.rawMatches[i].start, result.rawMatches[i].end)
        = result.rawMatches[i].text

(***************************************************************************)
(* The lists, the raw matches and the convenience fields                   *)
(***************************************************************************)
\* the texts of the raw matches of a kind
TextsOfKind(q, kind) ==
  {q.rawMatches[i].text : i \in {j \in 1..Len(q.rawMatches) : q.rawMatches[j].kind = kind}}

ElementsOf(arr) == {arr[i] : i \in 1..Len(arr)}

\* C27: the lists and the raw matches agree: the locoNos are the texts of the
\* locoNo matches, the assetIds are the lower-cased texts of the assetId
\* matches, and there are as many name matches as names
C27_ListsAgree ==
  pc = "done" =>
    /\ ElementsOf(result.locoNos) = TextsOfKind(result, "locoNo")
    /\ ElementsOf(result.assetIds)
         = {toLowerCase(t) : t \in TextsOfKind(result, "assetId")}
    /\ Len(matchesOfKind(result, "name")) = Len(result.names)

\* an asset id typed in upper case, listed in lower case, beside a loco number
C27_Witness ==
  /\ pc = "done"
  /\ result.assetIds = <<"68efff48b447af0013eb9da9">>
  /\ TextsOfKind(result, "assetId") = {"68EFFF48B447AF0013EB9DA9"}
  /\ result.locoNos # <<>>

\* the numbers of the matches ms of a keyword regex
NumbersOf(ms) == {ms[i].g2 : i \in 1..Len(ms)}

\* the phase that captures the number x of the message s: 1 for Phase A
\* (keyword, separator, number), 2 for Phase B (keyword and number without a
\* separator), 3 for the generic numbers of Phase C
PhaseRank(s, x) ==
  IF x \in NumbersOf(forEachMatch(s, "LOCO_KEYWORD_NUMBER_GLOBAL", 0).ms) THEN 1
  ELSE IF x \in NumbersOf(forEachMatch(s, "LOCO_KEYWORD_NUMBER_CONCAT_GLOBAL", 0).ms)
       THEN 2
  ELSE 3

\* where the matches ms first capture x
FirstCapture(ms, x) == MinOf({ms[i].index : i \in {j \in 1..Len(ms) : ms[j].g2 = x}})

\* where the phase of x first captures it
PhaseOffset(s, q, x) ==
  IF PhaseRank(s, x) = 1
  THEN FirstCapture(forEachMatch(s, "LOCO_KEYWORD_NUMBER_GLOBAL", 0).ms, x)
  ELSE IF PhaseRank(s, x) = 2
  THEN FirstCapture(forEachMatch(s, "LOCO_KEYWORD_NUMBER_CONCAT_GLOBAL", 0).ms, x)
  ELSE MinOf({q.rawMatches[i].start :
                i \in {j \in 1..Len(q.rawMatches) :
                         /\ q.rawMatches[j].kind = "locoNo"
                         /\ q.rawMatches[j].text = x}})

\* C28: assetId, locoNo and name are the first elements of their lists, absent
\* when the list is empty, and locoNos is ordered by phase, Phase A before
\* Phase B before Phase C, each phase in the order of the input
C28_ConvenienceFields ==
  pc = "done" =>
    /\ result.assetId
         = (IF result.assetIds = <<>> THEN Undefined ELSE result.assetIds[1])
    /\ result.locoNo
         = (IF result.locoNos = <<>> THEN Undefined ELSE result.locoNos[1])
    /\ result.name = (IF result.names = <<>> THEN Undefined ELSE result.names[1])
    /\ \A i, j \in 1..Len(result.locoNos) :
         i < j =>
           \/ PhaseRank(input, result.locoNos[i]) < PhaseRank(input, result.locoNos[j])
           \/ /\ PhaseRank(input, result.locoNos[i]) = PhaseRank(input, result.locoNos[j])
              /\ PhaseOffset(input, result, result.locoNos[i])
                   < PhaseOffset(input, result, result.locoNos[j])

\* the keyword-anchored number stands after a generic number in the message
\* and before it in locoNos
C28_Witness ==
  /\ pc = "done"
  /\ input = "903 unit 8778"
  /\ result.locoNos = <<"8778", "903">>
  /\ result.locoNo = "8778"
  /\ result.assetId = Undefined

(***************************************************************************)
(* The source and the compiled module                                      *)
(***************************************************************************)
\* C29: the compiled module returns what the source returns: the same
\* assetIds, locoNos, names and confidence for every message
C29_CompiledEquivalent ==
  pc = "compiled" =>
    /\ result.assetIds = FirstCall(input).assetIds
    /\ result.locoNos = FirstCall(input).locoNos
    /\ result.names = FirstCall(input).names
    /\ result.confidence = FirstCall(input).confidence
====
